---- MODULE Spec2Model ----
(***************************************************************************)
(* Verification model of the writing-improvement pipeline core:            *)
(*   - the rate-limited request queue of AnthropicAPI (queueRequest,       *)
(*     processQueue, callClaude),                                          *)
(*   - filterRelevantMessagesLLM (relevance confirmation, batched),        *)
(*   - evaluateBatch (quality evaluation, batched).                        *)
(* Time is the value of Date.now() in milliseconds.  An action is one      *)
(* run-to-completion step of the JavaScript event loop: the code between   *)
(* two awaits that can be separated by a timer or a network event.         *)
(***************************************************************************)
EXTENDS Integers, Sequences, FiniteSets, TLC

\* ---------------------------------------------------------------- constants
MIN_REQUEST_INTERVAL == 1000
\* handleSubmit, finally: `setTimeout(() => { setGrading(false) ... }, 1000)`
GRADING_LINGER == 1000
COOLDOWN == 60000
COOLDOWN_EVERY == 4
EVAL_BATCH_SIZE == 5

\* ------------------------------------------------------------------- bounds
TimeStep == 500
MaxClock == 3000
MaxTasks == 3
MaxMsgs == 5
MaxBatchSize == 2
MaxEvalMsgs == 6
MaxQuestions == 2       \* questions of a practice session
MaxIssues == 4          \* issues passed to generatePracticeQuestions
MaxEvaluations == 3     \* records passed to analyzePatterns
MaxWords == 16          \* words in an uploaded message
MaxSegments == 4        \* pieces a raw model response is assembled from
MaxConversations == 2   \* conversations in a chat export
MaxNodes == 2           \* nodes in a conversation's mapping
MaxEdits == 1           \* answers typed while a session is open


VARIABLES
  clock,            \* Date.now()
  requestQueue,     \* this.requestQueue: the queued wrappers, by task id
  isProcessing,     \* this.isProcessing
  lastRequestTime,  \* this.lastRequestTime
  loops,            \* activations of processQueue: where each one is suspended
  tasks,            \* per queueRequest call: the request, its wrapper, its promise
  nextTask,         \* id given to the next queueRequest call
  inflight,         \* outbound model calls awaiting their HTTP response
  startLog,         \* instrumented clock: <<task, at>> for every request() call
  flt,              \* the running filterRelevantMessagesLLM call: arguments and locals
  evl,              \* the running evaluateBatch call: arguments and locals
  san,              \* the running cleanJSONResponse call: argument and result
  heu,              \* the upload being parsed and filtered by filterMessagesHeuristic
  ana,              \* the running analyzePatterns call: arguments and locals
  gen,              \* the running generatePracticeQuestions call
  grd,              \* the running gradePracticeSession call
  cmp,              \* the running generateComparisonAnalysis call
  app,              \* the running handleEvaluation / handleReEvaluation of App
  prs,              \* the chat export being read by parseChatLogs
  ses               \* a practice session: its questions, answers, results, score

schedVars == <<clock, requestQueue, isProcessing, lastRequestTime, loops, tasks,
               nextTask, inflight, startLog>>
callerVars == <<flt, evl, san, heu, ana, gen, grd, cmp, app, prs, ses>>
vars == <<clock, requestQueue, isProcessing, lastRequestTime, loops, tasks,
          nextTask, inflight, startLog, flt, evl, san, heu, ana, gen, grd,
          cmp, app, prs, ses>>
exceptFlt == <<evl, san, heu, ana, gen, grd, cmp, app, prs, ses>>
exceptEvl == <<flt, san, heu, ana, gen, grd, cmp, app, prs, ses>>
exceptSan == <<flt, evl, heu, ana, gen, grd, cmp, app, prs, ses>>
exceptHeu == <<flt, evl, san, ana, gen, grd, cmp, app, prs, ses>>
exceptAna == <<flt, evl, san, heu, gen, grd, cmp, app, prs, ses>>
exceptGen == <<flt, evl, san, heu, ana, grd, cmp, app, prs, ses>>
exceptGrd == <<flt, evl, san, heu, ana, gen, cmp, app, prs, ses>>
exceptCmp == <<flt, evl, san, heu, ana, gen, grd, app, prs, ses>>
exceptApp == <<flt, evl, san, heu, ana, gen, grd, cmp, prs, ses>>
exceptPrs == <<flt, evl, san, heu, ana, gen, grd, cmp, app, ses>>
exceptSes == <<flt, evl, san, heu, ana, gen, grd, cmp, app, prs>>

\* ------------------------------------------------------------------ helpers
IdleLoop == [pc |-> "idle", wakeAt |-> 0, task |-> 0]

LoopIds == DOMAIN loops

\* What a request produces: ok = it resolved (with body), ~ok = it threw.
\* The body of a model call is what JSON.parse(cleanJSONResponse(response))
\* makes of the response text: kind "unparseable" (SyntaxError), "nonarray"
\* (an object, a number, null, ...) or "array" with its entries arr.
NoBody == [kind |-> "none", arr |-> <<>>]
Pending == [ok |-> FALSE, body |-> [kind |-> "pending", arr |-> <<>>]]
Taken == [ok |-> FALSE, body |-> [kind |-> "taken", arr |-> <<>>]]
TaskOutcomes == {[ok |-> TRUE, body |-> NoBody], [ok |-> FALSE, body |-> NoBody]}

NewTask == [state |-> "new", promise |-> "pending", settles |-> 0,
            outcome |-> Pending, delivered |-> Pending, enqAt |-> 0]

\* processQueue, first line: `if (this.isProcessing || this.requestQueue.length === 0) return`
\* (variant: the isProcessing test left out)
EarlyReturnNoFlag(ip, q) == Len(q) = 0
EarlyReturn(ip, q) == ip \/ Len(q) = 0

\* processQueue: `timeSinceLastRequest < this.MIN_REQUEST_INTERVAL`
\* (variant: no pacing)
NeedsWaitNever(now, last) == FALSE
NeedsWait(now, last) == (now - last) < MIN_REQUEST_INTERVAL

\* processQueue: `waitTime = this.MIN_REQUEST_INTERVAL - timeSinceLastRequest`
WaitTime(now, last) == MIN_REQUEST_INTERVAL - (now - last)

\* processQueue: `this.requestQueue.shift()`
\* (variant: pop() instead of shift())
Pop(q) == [request |-> q[Len(q)], rest |-> SubSeq(q, 1, Len(q) - 1)]
Shift(q) == [request |-> Head(q), rest |-> Tail(q)]

\* queueRequest's wrapper: try { resolve(await request()) } catch (e) { reject(e) }
\* the state its caller's promise is settled to
\* (variant: no catch, resolve in every case)
SettleAlwaysResolve(o) == "resolved"
Settle(o) == IF o.ok THEN "resolved" ELSE "rejected"

\* the wrapper itself never rejects: its catch block absorbs the error
\* (variant: the catch block rethrows)
WrapperRethrows(o) == ~o.ok
WrapperThrows(o) == FALSE

FreeLoop == CHOOSE l \in LoopIds : loops[l].pc = "idle" /\
                                   \A k \in LoopIds : loops[k].pc = "idle" => l <= k

\* request = this.requestQueue.shift(); if (request) await request()
\* (the wrapper calls request() synchronously, so the model call is issued here)
RunRequest(l, q, tk, infl, ip) ==
  LET s == Shift(q) t == s.request IN
  /\ requestQueue' = s.rest
  /\ tasks' = [tk EXCEPT ![t].state = "running"]
  /\ inflight' = infl \cup {t}
  /\ startLog' = Append(startLog, [task |-> t, at |-> clock])
  /\ loops' = [loops EXCEPT ![l] = [pc |-> "awaitRequest", wakeAt |-> 0, task |-> t]]
  /\ isProcessing' = ip

\* processQueue: `while (this.requestQueue.length > 0)` is left
\* (variant: `length > 1`, the loop stops with one request still queued)
LoopEndsAtLast(q) == Len(q) <= 1
LoopEnds(q) == Len(q) = 0

\* the while test of processQueue and the iteration's code up to its first await
LoopHead(l, q, tk, infl, last, ip) ==
  IF LoopEnds(q)
  THEN /\ isProcessing' = FALSE
       /\ loops' = [loops EXCEPT ![l] = IdleLoop]
       /\ requestQueue' = q
       /\ tasks' = tk
       /\ inflight' = infl
       /\ UNCHANGED startLog
  ELSE IF NeedsWait(clock, last)
  THEN /\ loops' = [loops EXCEPT ![l] = [pc |-> "sleep",
                                          wakeAt |-> clock + WaitTime(clock, last),
                                          task |-> 0]]
       /\ isProcessing' = ip
       /\ requestQueue' = q
       /\ tasks' = tk
       /\ inflight' = infl
       /\ UNCHANGED startLog
  ELSE RunRequest(l, q, tk, infl, ip)

\* ------------------------------------------------------------------ actions
\* a freshly constructed AnthropicAPI, at time `now`, that will serve n calls
InitScheduler(now, n) ==
  /\ clock = now
  /\ requestQueue = <<>>
  /\ isProcessing = FALSE
  /\ lastRequestTime = 0
  /\ loops = [l \in 1..n |-> IdleLoop]
  /\ tasks = [t \in 1..n |-> NewTask]
  /\ nextTask = 1
  /\ inflight = {}
  /\ startLog = <<>>

\* the client at time `now`, idle, its last request (if any) finished a
\* while ago, half an interval ago or just now; it will serve n calls
InitIdleScheduler(now, n) ==
  /\ clock = now
  /\ requestQueue = <<>>
  /\ isProcessing = FALSE
  /\ lastRequestTime \in {0, now - (MIN_REQUEST_INTERVAL \div 2), now}
  /\ loops = [l \in 1..n |-> IdleLoop]
  /\ tasks = [t \in 1..n |-> NewTask]
  /\ nextTask = 1
  /\ inflight = {}
  /\ startLog = <<>>

NoFilter == [pc |-> "off"]
NoEval == [pc |-> "off"]
NoCall == [pc |-> "off"]

\* no method of the set S is being called, S apart
OnlyCalls(S) ==
  /\ IF "flt" \in S THEN TRUE ELSE flt = NoFilter
  /\ IF "evl" \in S THEN TRUE ELSE evl = NoEval
  /\ IF "san" \in S THEN TRUE ELSE san = NoCall
  /\ IF "heu" \in S THEN TRUE ELSE heu = NoCall
  /\ IF "ana" \in S THEN TRUE ELSE ana = NoCall
  /\ IF "gen" \in S THEN TRUE ELSE gen = NoCall
  /\ IF "grd" \in S THEN TRUE ELSE grd = NoCall
  /\ IF "cmp" \in S THEN TRUE ELSE cmp = NoCall
  /\ IF "app" \in S THEN TRUE ELSE app = NoCall
  /\ IF "prs" \in S THEN TRUE ELSE prs = NoCall
  /\ IF "ses" \in S THEN TRUE ELSE ses = NoCall

\* Date.now() is far beyond one interval when the client is constructed
Init ==
  /\ InitScheduler(MIN_REQUEST_INTERVAL, MaxTasks)
  /\ OnlyCalls({})

\* queueRequest(request): push the wrapper, then call processQueue()
\* (tk0 is the record of the calls made so far)
Enqueue(tk0) ==
  /\ LET t  == nextTask
         q  == Append(requestQueue, t)
         tk == [tk0 EXCEPT ![t].state = "queued", ![t].enqAt = clock]
     IN /\ nextTask' = t + 1
        /\ IF EarlyReturn(isProcessing, q)
           THEN /\ requestQueue' = q
                /\ tasks' = tk
                /\ UNCHANGED <<isProcessing, loops, inflight, startLog>>
           ELSE LoopHead(FreeLoop, q, tk, inflight, lastRequestTime, TRUE)
  /\ UNCHANGED <<clock, lastRequestTime>>

\* callClaude(prompt) by some caller of the client
QueueRequest ==
  /\ nextTask <= MaxTasks
  /\ Enqueue(tasks)
  /\ UNCHANGED callerVars

\* the setTimeout of processQueue fires
TimerFire(l) ==
  /\ loops[l].pc = "sleep"
  /\ clock >= loops[l].wakeAt
  /\ IF Len(requestQueue) = 0
     THEN LoopHead(l, requestQueue, tasks, inflight, lastRequestTime, isProcessing)
     ELSE RunRequest(l, requestQueue, tasks, inflight, isProcessing)
  /\ UNCHANGED <<clock, lastRequestTime, nextTask>>
  /\ UNCHANGED callerVars

\* the running request settles with outcome o; the wrapper settles the caller's
\* promise; processQueue resumes after `await request()`
TaskSettle(l, o) ==
  /\ loops[l].pc = "awaitRequest"
  /\ LET t  == loops[l].task
         tk == [tasks EXCEPT ![t].state     = "settled",
                             ![t].promise   = Settle(o),
                             ![t].settles   = @ + 1,
                             ![t].outcome   = o,
                             ![t].delivered = o]
     IN /\ tasks[t].state = "running"
        /\ IF WrapperThrows(o)
           THEN \* the await throws: processQueue's own promise rejects
                /\ loops' = [loops EXCEPT ![l] = IdleLoop]
                /\ tasks' = tk
                /\ inflight' = inflight \ {t}
                /\ UNCHANGED <<requestQueue, isProcessing, lastRequestTime, startLog>>
           ELSE /\ lastRequestTime' = clock
                /\ LoopHead(l, requestQueue, tk, inflight \ {t}, clock, isProcessing)
  /\ UNCHANGED <<clock, nextTask>>
  /\ UNCHANGED callerVars

\* the due times of the pending setTimeout calls
Timers ==
  {loops[l].wakeAt : l \in {k \in LoopIds : loops[k].pc = "sleep"}}
    \cup (IF flt.pc = "cooldown" THEN {flt.wakeAt} ELSE {})
    \cup (IF evl.pc = "cooldown" THEN {evl.wakeAt} ELSE {})
    \cup (IF ses.pc \in {"graded", "reset", "open"}
          THEN (IF ses.grading THEN {ses.wakeAt} ELSE {}) ELSE {})

\* time passes: by TimeStep, or (beyond MaxClock) to the next timer that is due
Tick ==
  /\ \/ /\ clock < MaxClock
        /\ clock' = clock + TimeStep
     \/ /\ clock >= MaxClock
        /\ \E w \in Timers :
             /\ w > clock
             /\ \A v \in Timers : v > clock => w <= v
             /\ clock' = w
  /\ UNCHANGED <<requestQueue, isProcessing, lastRequestTime, loops, tasks,
                 nextTask, inflight, startLog>>
  /\ UNCHANGED callerVars

\* ------------------------------------------- filterRelevantMessagesLLM
Min(a, b) == IF a <= b THEN a ELSE b
Ceil(a, b) == (a + b - 1) \div b

\* the k-th message of the input list
Msg(k) == [id |-> k, text |-> 100 + k]

\* messages.slice(from, to), with 0-based offsets
Slice(s, from, to) == SubSeq(s, from + 1, Min(to, Len(s)))

\* results[idx] (0-based idx + 1 = j); undefined beyond the array's end
At(arr, j) == IF j <= Len(arr) THEN arr[j] ELSE "undefined"

\* `results[idx] === true`
\* (variant: the test inverted)
IsTrueNegated(e) == e = "false"
IsTrue(e) == e = "true"

\* `results.length !== batch.length`
\* (variant: no length check)
WrongLengthNever(results, batch) == FALSE
WrongLength(results, batch) == Len(results) # Len(batch)

\* batch.forEach((msg, idx) => { if (results[idx] === true) relevant.push(msg) })
RECURSIVE KeepTrue(_, _, _)
KeepTrue(batch, results, j) ==
  IF j > Len(batch) THEN <<>>
  ELSE (IF IsTrue(At(results, j)) THEN <<batch[j]>> ELSE <<>>)
         \o KeepTrue(batch, results, j + 1)

\* the try/catch of one batch: what is pushed onto `relevant` for outcome o
FilterBatchResult(batch, o) ==
  IF ~o.ok THEN batch                                   \* callClaude rejected
  ELSE IF o.body.kind = "unparseable" THEN batch        \* JSON.parse threw
  ELSE IF o.body.kind # "array" \/ WrongLength(o.body.arr, batch) THEN batch
  ELSE KeepTrue(batch, o.body.arr, 1)

\* the model's possible answers to a batch of b messages
FilterEntries == {"true", "false", "null"}
FilterOutcomes(b) ==
  {[ok |-> FALSE, body |-> NoBody],
   [ok |-> TRUE, body |-> [kind |-> "unparseable", arr |-> <<>>]],
   [ok |-> TRUE, body |-> [kind |-> "nonarray", arr |-> <<>>]]}
  \cup {[ok |-> TRUE, body |-> [kind |-> "array", arr |-> a]] :
          a \in UNION {[1..L -> FilterEntries] : L \in {b - 1, b, b + 1} \cap Nat}}

FilterBatch == Slice(flt.messages, flt.i, flt.i + flt.batchSize)
FilterBatchNum == (flt.i \div flt.batchSize) + 1
FilterTotalBatches == Ceil(Len(flt.messages), flt.batchSize)

\* (variant: the pause also follows the last batch)
CooldownDueAlsoLast(batchNum, totalBatches) == batchNum % COOLDOWN_EVERY = 0
\* `batchNum % 4 === 0 && batchNum < totalBatches`
CooldownDue(batchNum, totalBatches) ==
  batchNum % COOLDOWN_EVERY = 0 /\ batchNum < totalBatches

\* `i < messages.length`: the test of both for loops
\* (variant: `<=`)
LoopTestInclusive(i, length) == i <= length
LoopTest(i, length) == i < length

\* `i += batchSize`: the loop's step after a batch whose call gave o
\* (variant: a batch whose call failed is sent again)
NextOffsetRetry(i, batchSize, o) == IF o.ok THEN i + batchSize ELSE i
NextOffset(i, batchSize, o) == i + batchSize

\* the for loop's test at offset i and the iteration's code up to
\* `await this.callClaude(...)`; tk0 is the record of the calls made so far
FilterLoop(i, rel, resp, tk0) ==
  IF LoopTest(i, Len(flt.messages))
  THEN /\ Enqueue(tk0)
       /\ flt' = [flt EXCEPT !.pc = "await", !.i = i, !.relevant = rel,
                             !.task = nextTask, !.response = resp]
  ELSE /\ flt' = [flt EXCEPT !.pc = "done", !.i = i, !.relevant = rel,
                             !.response = resp]
       /\ tasks' = tk0
       /\ UNCHANGED <<clock, requestQueue, isProcessing, lastRequestTime, loops,
                      nextTask, inflight, startLog>>

\* a call filterRelevantMessagesLLM(messages, batchSize) is about to be made,
\* on a fresh client, at a time from which only the timers' due times matter
InitFilter ==
  /\ InitScheduler(MaxClock, MaxMsgs)
  /\ \E n \in 0..MaxMsgs, bs \in 1..MaxBatchSize :
       flt = [pc |-> "init", messages |-> [k \in 1..n |-> Msg(k)],
              batchSize |-> bs, i |-> 0, relevant |-> <<>>, task |-> 0,
              wakeAt |-> 0, response |-> Pending]
  /\ OnlyCalls({"flt"})

\* filterRelevantMessagesLLM is called: runs up to its first await
FilterStart ==
  /\ flt.pc = "init"
  /\ FilterLoop(0, <<>>, flt.response, tasks)
  /\ UNCHANGED exceptFlt

\* callClaude's promise has settled: the rest of the iteration, then either
\* the cooldown's setTimeout or the next iteration up to its callClaude
FilterResume ==
  /\ flt.pc = "await"
  /\ tasks[flt.task].state = "settled"
  /\ LET o   == tasks[flt.task].delivered
         rel == flt.relevant \o FilterBatchResult(FilterBatch, o)
         tk  == [tasks EXCEPT ![flt.task].delivered = Taken,
                              ![flt.task].outcome = Taken]
     IN IF CooldownDue(FilterBatchNum, FilterTotalBatches)
        THEN /\ flt' = [flt EXCEPT !.pc = "cooldown", !.relevant = rel,
                                   !.response = o,
                                   !.wakeAt = clock + COOLDOWN]
             /\ tasks' = tk
             /\ UNCHANGED <<clock, requestQueue, isProcessing, lastRequestTime,
                            loops, nextTask, inflight, startLog>>
        ELSE FilterLoop(NextOffset(flt.i, flt.batchSize, o), rel, o, tk)
  /\ UNCHANGED exceptFlt

\* the cooldown's setTimeout fires: the loop goes on
FilterCooldownEnd ==
  /\ flt.pc = "cooldown"
  /\ clock >= flt.wakeAt
  /\ FilterLoop(NextOffset(flt.i, flt.batchSize, flt.response),
                flt.relevant, flt.response, tasks)
  /\ UNCHANGED exceptFlt

FilterNext ==
  \/ FilterStart
  \/ FilterResume
  \/ FilterCooldownEnd
  \/ \E l \in LoopIds : TimerFire(l)
  \/ \E l \in LoopIds, o \in FilterOutcomes(Len(FilterBatch)) : TaskSettle(l, o)
  \/ Tick

FilterSpec == InitFilter /\ [][FilterNext]_vars

\* ------------------------------------------------------- evaluateBatch
\* One entry of the array the model returns.  truthy: the entry passes
\* `if (apiResult)`.  A score of 0 stands for any falsy value of the field
\* (0, null, or the field missing); an issue list is missing when ~some.
Issues(l) == [some |-> TRUE, val |-> l]
NoIssues == [some |-> FALSE, val |-> <<>>]
NullEntry ==
  [truthy |-> FALSE, message_id |-> 0, text |-> 0,
   grammar_score |-> 0, punctuation_score |-> 0, tone_score |-> 0,
   grammar_issues |-> NoIssues, punctuation_issues |-> NoIssues,
   tone_issues |-> NoIssues]

\* the model's evaluation of message k, labelled with message k's id and text
ValidEntry(k) ==
  [truthy |-> TRUE, message_id |-> k, text |-> 100 + k,
   grammar_score |-> 1 + (k % 5), punctuation_score |-> 1 + ((k + 1) % 5),
   tone_score |-> 1 + ((k + 2) % 5),
   grammar_issues |-> Issues(<<"tense inconsistency">>),
   punctuation_issues |-> Issues(<<>>),
   tone_issues |-> Issues(<<"too casual">>)]

\* an object without any of the expected fields (or a truthy primitive)
EmptyEntry == [NullEntry EXCEPT !.truthy = TRUE]

\* an object whose fields are off the contract: scores outside 1..5, an id
\* and a text of no input message
WildEntry ==
  [truthy |-> TRUE, message_id |-> 999, text |-> 999,
   grammar_score |-> 9, punctuation_score |-> 0 - 1, tone_score |-> 0,
   grammar_issues |-> NoIssues, punctuation_issues |-> Issues(<<"x">>),
   tone_issues |-> NoIssues]

\* batchResults[j]; undefined (falsy) beyond the array's end
EvalAt(arr, j) == IF j <= Len(arr) THEN arr[j] ELSE NullEntry

\* `apiResult.grammar_score || 3`
OrDefault(score, d) == IF score = 0 THEN d ELSE score
\* `apiResult.grammar_issues || []`
OrElse(opt, d) == IF opt.some THEN opt.val ELSE d

Placeholder(m, note) ==
  [message_id |-> m.id, text |-> m.text,
   grammar_score |-> 3, punctuation_score |-> 3, tone_score |-> 3,
   grammar_issues |-> <<note>>, punctuation_issues |-> <<>>, tone_issues |-> <<>>]

\* the body of `for (let j = 0; j < batch.length; j++)` in the try block
\* (variant: message_id and text copied from the model's entry)
MapResultFromApi(originalMessage, apiResult) ==
  IF apiResult.truthy
  THEN [message_id |-> apiResult.message_id, text |-> apiResult.text,
        grammar_score |-> OrDefault(apiResult.grammar_score, 3),
        punctuation_score |-> OrDefault(apiResult.punctuation_score, 3),
        tone_score |-> OrDefault(apiResult.tone_score, 3),
        grammar_issues |-> OrElse(apiResult.grammar_issues, <<>>),
        punctuation_issues |-> OrElse(apiResult.punctuation_issues, <<>>),
        tone_issues |-> OrElse(apiResult.tone_issues, <<>>)]
  ELSE Placeholder(originalMessage, "Error: No evaluation returned")
\* (as coded: message_id and text copied from the original message)
MapResult(originalMessage, apiResult) ==
  IF apiResult.truthy
  THEN [message_id |-> originalMessage.id, text |-> originalMessage.text,
        grammar_score |-> OrDefault(apiResult.grammar_score, 3),
        punctuation_score |-> OrDefault(apiResult.punctuation_score, 3),
        tone_score |-> OrDefault(apiResult.tone_score, 3),
        grammar_issues |-> OrElse(apiResult.grammar_issues, <<>>),
        punctuation_issues |-> OrElse(apiResult.punctuation_issues, <<>>),
        tone_issues |-> OrElse(apiResult.tone_issues, <<>>)]
  ELSE Placeholder(originalMessage, "Error: No evaluation returned")

\* the try/catch of one batch: what is pushed onto allResults for outcome o
\* (variant: a failed batch is skipped)
EvalBatchResultSkip(batch, o) ==
  IF ~o.ok \/ o.body.kind # "array"
  THEN <<>>
  ELSE [j \in 1..Len(batch) |-> MapResult(batch[j], EvalAt(o.body.arr, j))]

\* the try/catch of one batch: what is pushed onto allResults for outcome o
EvalBatchResult(batch, o) ==
  IF ~o.ok \/ o.body.kind # "array"
  THEN \* callClaude rejected, JSON.parse threw, or 'API did not return an array'
       [j \in 1..Len(batch) |-> Placeholder(batch[j], "Error evaluating this message")]
  ELSE [j \in 1..Len(batch) |-> MapResult(batch[j], EvalAt(o.body.arr, j))]

ArrayOutcome(a) == [ok |-> TRUE, body |-> [kind |-> "array", arr |-> a]]

\* the model's possible answers to the batch of b messages after offset i:
\* rejected, unparseable, not an array, valid, shuffled (reversed), truncated,
\* one entry too many, nulls, empty objects, a null among valid entries, and
\* entries off the contract
EvalOutcomesRich(i, b) ==
  {[ok |-> FALSE, body |-> NoBody],
   [ok |-> TRUE, body |-> [kind |-> "unparseable", arr |-> <<>>]],
   [ok |-> TRUE, body |-> [kind |-> "nonarray", arr |-> <<>>]],
   ArrayOutcome([j \in 1..b |-> ValidEntry(i + j)]),
   ArrayOutcome([j \in 1..b |-> ValidEntry(i + b + 1 - j)]),
   ArrayOutcome([j \in 1..(b - 1) |-> ValidEntry(i + j)]),
   ArrayOutcome([j \in 1..(b + 1) |-> ValidEntry(i + j)]),
   ArrayOutcome([j \in 1..b |-> NullEntry]),
   ArrayOutcome([j \in 1..b |-> EmptyEntry]),
   ArrayOutcome([j \in 1..b |-> IF j = 1 THEN NullEntry ELSE ValidEntry(i + j)]),
   ArrayOutcome([j \in 1..b |-> WildEntry])}

\* the answers considered in the long run
EvalOutcomesCoarse(i, b) ==
  {[ok |-> FALSE, body |-> NoBody],
   ArrayOutcome([j \in 1..b |-> ValidEntry(i + b + 1 - j)])}

\* the shortest input after whose 4th batch a cooldown is due
LongRun == COOLDOWN_EVERY * EVAL_BATCH_SIZE + 1

EvalOutcomes(i, b) ==
  IF Len(evl.messages) <= MaxEvalMsgs
  THEN EvalOutcomesRich(i, b) ELSE EvalOutcomesCoarse(i, b)

EvalBatch == Slice(evl.messages, evl.i, evl.i + EVAL_BATCH_SIZE)
EvalBatchNum == (evl.i \div EVAL_BATCH_SIZE) + 1
EvalTotalBatches == Ceil(Len(evl.messages), EVAL_BATCH_SIZE)

\* the for loop's test at offset i and the iteration's code up to
\* `await this.callClaude(...)`; tk0 is the record of the calls made so far
EvalLoop(i, res, resp, tk0) ==
  IF LoopTest(i, Len(evl.messages))
  THEN /\ Enqueue(tk0)
       /\ evl' = [evl EXCEPT !.pc = "await", !.i = i, !.allResults = res,
                             !.task = nextTask, !.response = resp]
  ELSE /\ evl' = [evl EXCEPT !.pc = "done", !.i = i, !.allResults = res,
                             !.response = resp]
       /\ tasks' = tk0
       /\ UNCHANGED <<clock, requestQueue, isProcessing, lastRequestTime, loops,
                      nextTask, inflight, startLog>>

\* a call evaluateBatch(messages) is about to be made, on a fresh client, at
\* a time from which only the timers' due times matter
InitEval ==
  /\ InitScheduler(MaxClock, Ceil(LongRun, EVAL_BATCH_SIZE))
  /\ \E n \in (0..MaxEvalMsgs) \cup {LongRun} :
       evl = [pc |-> "init", messages |-> [k \in 1..n |-> Msg(k)],
              i |-> 0, allResults |-> <<>>, task |-> 0,
              wakeAt |-> 0, response |-> Pending]
  /\ OnlyCalls({"evl"})

\* evaluateBatch is called: runs up to its first await
EvalStart ==
  /\ evl.pc = "init"
  /\ EvalLoop(0, <<>>, evl.response, tasks)
  /\ UNCHANGED exceptEvl

\* callClaude's promise has settled: the rest of the iteration, then either
\* the cooldown's setTimeout or the next iteration up to its callClaude
EvalResume ==
  /\ evl.pc = "await"
  /\ tasks[evl.task].state = "settled"
  /\ LET o   == tasks[evl.task].delivered
         res == evl.allResults \o EvalBatchResult(EvalBatch, o)
         tk  == [tasks EXCEPT ![evl.task].delivered = Taken,
                              ![evl.task].outcome = Taken]
     IN IF CooldownDue(EvalBatchNum, EvalTotalBatches)
        THEN /\ evl' = [evl EXCEPT !.pc = "cooldown", !.allResults = res,
                                   !.response = o,
                                   !.wakeAt = clock + COOLDOWN]
             /\ tasks' = tk
             /\ UNCHANGED <<clock, requestQueue, isProcessing, lastRequestTime,
                            loops, nextTask, inflight, startLog>>
        ELSE EvalLoop(evl.i + EVAL_BATCH_SIZE, res, o, tk)
  /\ UNCHANGED exceptEvl

\* the cooldown's setTimeout fires: the loop goes on
EvalCooldownEnd ==
  /\ evl.pc = "cooldown"
  /\ clock >= evl.wakeAt
  /\ EvalLoop(evl.i + EVAL_BATCH_SIZE, evl.allResults, evl.response, tasks)
  /\ UNCHANGED exceptEvl

EvalNext ==
  \/ EvalStart
  \/ EvalResume
  \/ EvalCooldownEnd
  \/ \E l \in LoopIds : TimerFire(l)
  \/ \E l \in LoopIds, o \in EvalOutcomes(evl.i, Len(EvalBatch)) : TaskSettle(l, o)
  \/ Tick

EvalSpec == InitEval /\ [][EvalNext]_vars

\* ------------------------------------------------- cleanJSONResponse
\* A string is the sequence of its characters.  " " stands for any
\* whitespace character (what \s and trim() match), "a" for any character
\* that is neither whitespace, a backtick, a bracket, a brace nor part of
\* the word json; "^" stands for the backtick.
IsSpace(c) == c = " "

\* index of the first character at or after p that is not whitespace
SkipSpace(s, p) ==
  LET rest == {q \in p..Len(s) : ~IsSpace(s[q])}
  IN IF rest = {} THEN Len(s) + 1
     ELSE CHOOSE q \in rest : \A r \in rest : q <= r

\* String.prototype.trim
Trim(s) ==
  LET solid == {q \in 1..Len(s) : ~IsSpace(s[q])}
  IN IF solid = {} THEN <<>>
     ELSE SubSeq(s, CHOOSE q \in solid : \A r \in solid : q <= r,
                    CHOOSE q \in solid : \A r \in solid : q >= r)

StartsWithAt(s, p, pat) ==
  /\ p + Len(pat) - 1 <= Len(s)
  /\ SubSeq(s, p, p + Len(pat) - 1) = pat

Fence == <<"^", "^", "^">>
FenceJson == Fence \o <<"j", "s", "o", "n">>

\* s.replace(/pat\s*/g, '') from position p on: every leftmost match of pat
\* together with the whitespace after it is dropped
RECURSIVE ReplaceAll(_, _, _)
ReplaceAll(s, p, pat) ==
  IF p > Len(s) THEN <<>>
  ELSE IF StartsWithAt(s, p, pat)
       THEN ReplaceAll(s, SkipSpace(s, p + Len(pat)), pat)
       ELSE <<s[p]>> \o ReplaceAll(s, p + 1, pat)

\* String.prototype.indexOf / lastIndexOf (0-based, -1 when absent)
IndexOf(s, c) ==
  LET at == {q \in 1..Len(s) : s[q] = c}
  IN IF at = {} THEN 0 - 1 ELSE (CHOOSE q \in at : \A r \in at : q <= r) - 1
LastIndexOf(s, c) ==
  LET at == {q \in 1..Len(s) : s[q] = c}
  IN IF at = {} THEN 0 - 1 ELSE (CHOOSE q \in at : \A r \in at : q >= r) - 1

\* String.prototype.substring(from) and substring(0, to), 0-based
SubstringFrom(s, from) == SubSeq(s, from + 1, Len(s))
SubstringTo(s, to) == SubSeq(s, 1, to)

\* Step 1: both replace calls and the trim after them
StripFences(s) == Trim(ReplaceAll(ReplaceAll(s, 1, FenceJson), 1, Fence))

\* Step 2: the text from the first '[' or '{' on
JsonStart(s) ==
  LET jsonStartBracket == IndexOf(s, "[")
      jsonStartBrace   == IndexOf(s, "{")
  IN IF jsonStartBracket >= 0 /\ jsonStartBrace >= 0
     THEN Min(jsonStartBracket, jsonStartBrace)
     ELSE IF jsonStartBracket >= 0 THEN jsonStartBracket
     ELSE IF jsonStartBrace >= 0 THEN jsonStartBrace
     ELSE 0 - 1
CutStart(s) == IF JsonStart(s) > 0 THEN SubstringFrom(s, JsonStart(s)) ELSE s

\* Step 3: the text up to the last closer that matches the first character
\* (variant: indexOf, the first such closer)
JsonEndFirstCloser(s) ==
  LET t == Trim(s)
      startsWithBracket == Len(t) > 0 /\ t[1] = "["
      startsWithBrace   == Len(t) > 0 /\ t[1] = "{"
  IN IF startsWithBracket THEN IndexOf(s, "]")
     ELSE IF startsWithBrace THEN IndexOf(s, "}")
     ELSE 0 - 1
JsonEnd(s) ==
  LET t == Trim(s)
      startsWithBracket == Len(t) > 0 /\ t[1] = "["
      startsWithBrace   == Len(t) > 0 /\ t[1] = "{"
  IN IF startsWithBracket THEN LastIndexOf(s, "]")
     ELSE IF startsWithBrace THEN LastIndexOf(s, "}")
     ELSE 0 - 1
CutEnd(s) ==
  IF JsonEnd(s) > 0 /\ JsonEnd(s) < Len(s) - 1
  THEN SubstringTo(s, JsonEnd(s) + 1) ELSE s

\* (variant: the second replace call, of the bare fence, is left out)
CleanJSONResponseJsonFenceOnly(response) ==
  Trim(CutEnd(CutStart(Trim(ReplaceAll(Trim(response), 1, FenceJson)))))

CleanJSONResponse(response) ==
  Trim(CutEnd(CutStart(StripFences(Trim(response)))))

\* JSON.parse(text) deep-equals the value whose JSON.stringify is v: text is
\* v up to the whitespace JSON allows between tokens (none of the values
\* below has an escape or a token that whitespace could split)
Quote == "\""
RECURSIVE Significant(_, _, _)
Significant(s, p, inString) ==
  IF p > Len(s) THEN <<>>
  ELSE IF s[p] = Quote
       THEN <<s[p]>> \o Significant(s, p + 1, ~inString)
       ELSE IF IsSpace(s[p]) /\ ~inString
            THEN Significant(s, p + 1, inString)
            ELSE <<s[p]>> \o Significant(s, p + 1, inString)
ParsesTo(text, v) == Significant(text, 1, FALSE) = v

\* JSON.stringify of a string without escapes, of arrays and of an object
JStr(chars) == <<Quote>> \o chars \o <<Quote>>
JArr1(x) == <<"[">> \o x \o <<"]">>
JArr2(x, y) == <<"[">> \o x \o <<",">> \o y \o <<"]">>
JObj(key, x) == <<"{">> \o JStr(key) \o <<":">> \o x \o <<"}">>

\* the values a response may carry, as their JSON.stringify: scalars,
\* arrays and objects, nested, with strings that hold whitespace, brackets,
\* braces and fence markers
JsonScalars == {<<"1">>, JStr(<<"a">>), JStr(<<"[", "a", "]">>)}
JsonArrays ==
  {<<"[", "]">>, JArr1(<<"1">>), JArr2(<<"1">>, JStr(<<"a", " ", "a">>)),
   JArr1(JArr1(<<"1">>)), JArr1(JStr(<<"]">>)), JArr1(JStr(Fence)),
   JArr1(JObj(<<"a">>, <<"1">>))}
JsonObjects ==
  {<<"{", "}">>, JObj(<<"a">>, <<"1">>), JObj(<<"a">>, JArr1(<<"1">>)),
   JObj(<<"a">>, JStr(<<"}">>)), JObj(<<"a">>, JStr(FenceJson))}
JsonValues == JsonScalars \cup JsonArrays \cup JsonObjects

\* the prose a model puts before and after its fenced answer
LeadingProse ==
  {<<>>, <<"a", " ">>, <<"a", "[", "1", "]", " ">>, <<"a", "{", "a", "}", " ">>,
   <<"a", "]", " ">>, <<"^", " ">>}
TrailingProse ==
  {<<>>, <<" ", "a">>, <<" ", "a", "[", "1", "]">>, <<" ", "a", "}">>,
   <<" ", "[", "a">>, <<" ", "^", "^">>}
FenceOpeners == {FenceJson \o <<" ">>, Fence \o <<" ">>}

\* a fenced answer: prose, opening fence, the JSON text, closing fence, prose
Wrap(lead, open, v, trail) == lead \o open \o v \o <<" ">> \o Fence \o trail

\* the pieces other responses are assembled from
Segments ==
  {Fence, FenceJson, <<"[">>, <<"]">>, <<"{">>, <<"}">>, <<" ">>, <<"a">>,
   <<"^">>}
RECURSIVE Assembled(_)
Assembled(n) ==
  IF n = 0 THEN {<<>>}
  ELSE LET shorter == Assembled(n - 1)
       IN shorter \cup {x \o seg : x \in shorter, seg \in Segments}

NoText == <<>>

\* a model response is about to be passed to cleanJSONResponse: a fenced
\* answer carrying some JSON value, or any text of up to MaxSegments pieces
InitSan ==
  /\ InitScheduler(MaxClock, 0)
  /\ \/ \E v \in JsonValues, lead \in LeadingProse, trail \in TrailingProse,
           open \in FenceOpeners :
          san = [pc |-> "init", wrapped |-> TRUE, value |-> v, lead |-> lead,
                 trail |-> trail, raw |-> Wrap(lead, open, v, trail),
                 cleaned |-> NoText]
     \/ \E raw \in Assembled(MaxSegments) :
          san = [pc |-> "init", wrapped |-> FALSE, value |-> NoText,
                 lead |-> NoText, trail |-> NoText, raw |-> raw,
                 cleaned |-> NoText]
  /\ OnlyCalls({"san"})

\* cleanJSONResponse(response)
Clean ==
  /\ san.pc = "init"
  /\ san' = [san EXCEPT !.pc = "done", !.cleaned = CleanJSONResponse(san.raw)]
  /\ UNCHANGED schedVars
  /\ UNCHANGED exceptSan

SanNext == Clean

SanSpec == InitSan /\ [][SanNext]_vars

\* ---------------------------------- parseChatLogs, filterMessagesHeuristic
\* A message text is the sequence of its words and of the whitespace
\* characters (" ") between them.  "essay" and "Essay" stand for a word that
\* holds one of writingKeywords (in lower case / not), "code" for a word that
\* holds one of excludeKeywords, "w" for any other word, "w." and "w?" for
\* such a word followed by a period / a question mark.
writingKeywords == {"essay"}
excludeKeywords == {"code"}

\* String.prototype.toLowerCase, on the words that are not in lower case
LowerWord(w) ==
  CASE w = "Essay" -> "essay"
    [] w = "Tense" -> "tense"
    [] w = "Casual" -> "casual"
    [] OTHER -> w
ToLowerCase(text) == [q \in 1..Len(text) |-> LowerWord(text[q])]

\* text.includes(kw) for some kw of kws
IncludesSome(text, kws) == \E q \in 1..Len(text) : text[q] \in kws

\* msg.text.split(/\s+/).length: one more than the runs of whitespace
SplitLength(text) ==
  1 + Cardinality({q \in 1..Len(text) :
                     IsSpace(text[q]) /\ (q = 1 \/ ~IsSpace(text[q - 1]))})

\* (msg.text.match(/\./g) || []).length
Periods(text) == Cardinality({q \in 1..Len(text) : text[q] = "w."})

\* PRIORITY 3: the text looks like prose
\* (variant: `longEnough = wordCount >= 20`, the threshold before it was
\* lowered)
LooksLikeProseFrom20(text, wordCount) ==
  LET hasPunctuation    == Periods(text) >= 1
      multipleSentences == Periods(text) >= 2
      longEnough        == wordCount >= 20
      hasQuestionMark   == IncludesSome(text, {"w?"})
  IN \/ hasPunctuation /\ longEnough
     \/ multipleSentences
     \/ hasQuestionMark /\ wordCount >= 15
LooksLikeProse(text, wordCount) ==
  LET hasPunctuation    == Periods(text) >= 1
      multipleSentences == Periods(text) >= 2
      longEnough        == wordCount >= 15
      hasQuestionMark   == IncludesSome(text, {"w?"})
  IN \/ hasPunctuation /\ longEnough
     \/ multipleSentences
     \/ hasQuestionMark /\ wordCount >= 15

\* the body of messages.forEach: whether msg is pushed onto filtered
\* (variant: the keyword check comes before the word count check)
KeepsKeywordFirst(msg) ==
  LET text      == ToLowerCase(msg.text)
      wordCount == SplitLength(msg.text)
  IN IF IncludesSome(text, writingKeywords) THEN TRUE
     ELSE IF wordCount < 10 THEN FALSE
     ELSE IF IncludesSome(text, excludeKeywords) THEN FALSE
     ELSE LooksLikeProse(msg.text, wordCount)

Keeps(msg) ==
  LET text      == ToLowerCase(msg.text)
      wordCount == SplitLength(msg.text)
  IN IF wordCount < 10 THEN FALSE
     ELSE IF IncludesSome(text, writingKeywords) THEN TRUE
     ELSE IF IncludesSome(text, excludeKeywords) THEN FALSE
     ELSE LooksLikeProse(msg.text, wordCount)

RECURSIVE FilterMessagesHeuristic(_, _)
FilterMessagesHeuristic(messages, j) ==
  IF j > Len(messages) THEN <<>>
  ELSE (IF Keeps(messages[j]) THEN <<messages[j]>> ELSE <<>>)
       \o FilterMessagesHeuristic(messages, j + 1)

\* parseChatLogs: each user message's parts joined, trimmed, and pushed
\* under the next id unless empty
RECURSIVE ParseChatLogs(_, _, _)
ParseChatLogs(parts, j, messages) ==
  IF j > Len(parts) THEN messages
  ELSE LET text == Trim(parts[j])
       IN ParseChatLogs(parts, j + 1,
            IF text # <<>>
            THEN Append(messages, [id |-> Len(messages), text |-> text])
            ELSE messages)

\* words joined by the whitespace gap
RECURSIVE Join(_, _)
Join(words, gap) ==
  IF Len(words) = 0 THEN <<>>
  ELSE IF Len(words) = 1 THEN words
  ELSE <<Head(words)>> \o gap \o Join(Tail(words), gap)

\* the parts of one user message in the upload: n words, among them
\* possibly a writing keyword, an exclude keyword, periods and a question
\* mark, separated by one or two whitespace characters, with or without
\* whitespace before and after
Gaps == {<<" ">>, <<" ", " ">>}
Pads == {<<>>, <<" ">>}
UploadedParts ==
  {lead \o Join([k \in 1..(n - Len(special)) |-> "w"] \o special, gap) \o trail :
     n \in 0..MaxWords, gap \in Gaps, lead \in Pads, trail \in Pads,
     special \in {kw \o ex \o dots \o qm :
                    kw \in {<<>>, <<"essay">>, <<"Essay">>},
                    ex \in {<<>>, <<"code">>},
                    dots \in {<<>>, <<"w.">>, <<"w.", "w.">>},
                    qm \in {<<>>, <<"w?">>}}}

\* an essay request of nine words, and a prose of fifteen
ShortEssay == Join([k \in 1..9 |-> IF k = 1 THEN "essay" ELSE "w"], <<" ">>)
LongProse == Join([k \in 1..15 |-> IF k = 15 THEN "w." ELSE "w"], <<" ">>)

\* a chat log export has been uploaded: one or two user messages
InitHeu ==
  /\ InitScheduler(MaxClock, 0)
  /\ \E first \in UploadedParts, rest \in {<<>>, <<ShortEssay>>, <<LongProse>>} :
       heu = [pc |-> "init", parts |-> <<first>> \o rest,
              messages |-> <<>>, filtered |-> <<>>]
  /\ OnlyCalls({"heu"})

\* handleEvaluation, step 1: parseChatLogs
HeuParse ==
  /\ heu.pc = "init"
  /\ heu' = [heu EXCEPT !.pc = "parsed",
                         !.messages = ParseChatLogs(heu.parts, 1, <<>>)]
  /\ UNCHANGED schedVars
  /\ UNCHANGED exceptHeu

\* handleEvaluation, step 2: filterMessagesHeuristic
HeuFilter ==
  /\ heu.pc = "parsed"
  /\ heu' = [heu EXCEPT !.pc = "done",
                         !.filtered = FilterMessagesHeuristic(heu.messages, 1)]
  /\ UNCHANGED schedVars
  /\ UNCHANGED exceptHeu

HeuNext == HeuParse \/ HeuFilter

HeuSpec == InitHeu /\ [][HeuNext]_vars

\* ------------------------------------------------------ analyzePatterns
\* An issue description is a text: the sequence of its words and of the
\* whitespace between them.
\* `issue.toLowerCase().trim()`
Normalized(issue) == Trim(ToLowerCase(issue))

\* the keys of issueCounts in insertion order: the normalized issues that
\* are not empty, each at its first occurrence
RECURSIVE IssueKeys(_, _, _)
IssueKeys(issues, j, keys) ==
  IF j > Len(issues) THEN keys
  ELSE LET normalized == Normalized(issues[j])
       IN IssueKeys(issues, j + 1,
            IF normalized # <<>> /\ \A k \in 1..Len(keys) : keys[k] # normalized
            THEN Append(keys, normalized) ELSE keys)

\* issueCounts.get(key)
IssueCount(issues, key) ==
  Cardinality({j \in 1..Len(issues) : Normalized(issues[j]) = key})

\* Array.prototype.sort((a, b) => b[1] - a[1]): by count, the larger first,
\* equal counts in the order they had (the sort is stable)
RECURSIVE SortByCount(_, _)
SortByCount(keys, issues) ==
  IF keys = <<>> THEN <<>>
  ELSE LET best == CHOOSE k \in 1..Len(keys) :
                     /\ \A m \in 1..Len(keys) :
                          IssueCount(issues, keys[k]) >= IssueCount(issues, keys[m])
                     /\ \A m \in 1..(k - 1) :
                          IssueCount(issues, keys[m]) < IssueCount(issues, keys[k])
       IN <<keys[best]>> \o
          SortByCount([m \in 1..(Len(keys) - 1) |->
                         IF m < best THEN keys[m] ELSE keys[m + 1]], issues)

\* Array.prototype.slice(0, 5)
\* (variant: the list is not capped)
Slice5Never(list) == list
Slice5(list) == SubSeq(list, 1, Min(5, Len(list)))

\* `frequency > 5 ? 'high' : frequency > 2 ? 'medium' : 'low'`
\* (variant: medium from 4 on)
SeverityMediumFrom4(frequency) ==
  IF frequency > 5 THEN "high" ELSE IF frequency > 3 THEN "medium" ELSE "low"
Severity(frequency) ==
  IF frequency > 5 THEN "high" ELSE IF frequency > 2 THEN "medium" ELSE "low"

GenericIssue(category) ==
  [issue |-> <<"Minor", category, "inconsistencies detected">>,
   frequency |-> 1, severity |-> "low",
   recommendation |-> <<"Review", category, "rules and best practices">>]

GenerateFallbackIssues(issues, category) ==
  LET keys == IssueKeys(issues, 1, <<>>)
      sorted == Slice5(SortByCount(keys, issues))
  IN IF Len(keys) = 0 THEN <<GenericIssue(category)>>
     ELSE [k \in 1..Len(sorted) |->
             [issue |-> sorted[k],
              frequency |-> IssueCount(issues, sorted[k]),
              severity |-> Severity(IssueCount(issues, sorted[k])),
              recommendation |-> <<"Review and practice", category,
                                   "rules related to:">> \o sorted[k]]]

\* scores.reduce((a, b) => a + b, 0) over the field of every record
RECURSIVE SumOf(_, _)
SumOf(evaluations, field) ==
  IF evaluations = <<>> THEN 0
  ELSE Head(evaluations)[field] + SumOf(Tail(evaluations), field)

\* a number sum / n, kept as the fraction (0 / 0 is NaN)
Ratio(sum, n) == [sum |-> sum, n |-> n]
Average(evaluations, field) == Ratio(SumOf(evaluations, field), Len(evaluations))

\* evaluations.flatMap(e => e[field] || [])
RECURSIVE FlatMap(_, _)
FlatMap(evaluations, field) ==
  IF evaluations = <<>> THEN <<>>
  ELSE Head(evaluations)[field] \o FlatMap(Tail(evaluations), field)

\* parseFloat(avg.toFixed(2)): the average as the prompt shows it
ToFixed2(avg) ==
  IF avg.n = 0 THEN avg
  ELSE Ratio((200 * avg.sum + avg.n) \div (2 * avg.n), 100)

\* The value of a top_*_issues field of the object the model returned:
\* missing (undefined, or any falsy value), array (any value with a length
\* and a slice method: its entries), unsliceable (any other truthy value: a
\* number, an object)
MissingList == [kind |-> "missing", val |-> <<>>]
ArrayList(l) == [kind |-> "array", val |-> l]
UnsliceableList == [kind |-> "unsliceable", val |-> <<>>]
ModelIssue(k) ==
  [issue |-> <<"issue named by the model">>, frequency |-> k,
   severity |-> "high", recommendation |-> <<"advice of the model">>]
ModelLists ==
  {MissingList, ArrayList(<<>>), ArrayList(<<ModelIssue(8)>>),
   ArrayList([k \in 1..7 |-> ModelIssue(10 - k)]), UnsliceableList}

\* the summary field of that object: missing, the numbers of the prompt
\* copied, or numbers of the model's own
NoSummary ==
  [some |-> FALSE, total_messages |-> 0, avg_grammar_score |-> Ratio(0, 0),
   avg_punctuation_score |-> Ratio(0, 0), avg_tone_score |-> Ratio(0, 0),
   overall_assessment |-> "none"]
CopiedSummary(evaluations) ==
  [some |-> TRUE, total_messages |-> Len(evaluations),
   avg_grammar_score |-> ToFixed2(Average(evaluations, "grammar_score")),
   avg_punctuation_score |-> ToFixed2(Average(evaluations, "punctuation_score")),
   avg_tone_score |-> ToFixed2(Average(evaluations, "tone_score")),
   overall_assessment |-> "assessment of the model"]
OwnSummary(evaluations) ==
  [some |-> TRUE, total_messages |-> Len(evaluations) + 1,
   avg_grammar_score |-> Ratio(1, 1), avg_punctuation_score |-> Ratio(5, 1),
   avg_tone_score |-> Ratio(7, 2),
   overall_assessment |-> "assessment of the model"]

\* the model's possible answers to the analysis prompt: rejected, not
\* JSON, JSON null, a JSON number or string, or an object (or array) with
\* any of the summaries, any of the lists for grammar, and lists of
\* different kinds for punctuation and tone
AnaOutcomes(evaluations) ==
  {[ok |-> FALSE, body |-> NoBody],
   [ok |-> TRUE, body |-> [kind |-> "unparseable", arr |-> <<>>]],
   [ok |-> TRUE, body |-> [kind |-> "null", arr |-> <<>>]],
   [ok |-> TRUE, body |-> [kind |-> "primitive", arr |-> <<>>]]}
  \cup
  {[ok |-> TRUE,
    body |-> [kind |-> "object", arr |-> <<>>,
              obj |-> [summary |-> sm, top_grammar_issues |-> g,
                       top_punctuation_issues |-> pu, top_tone_issues |-> t]]] :
     sm \in {NoSummary, CopiedSummary(evaluations), OwnSummary(evaluations)},
     g \in ModelLists,
     pu \in {MissingList, ArrayList([k \in 1..7 |-> ModelIssue(10 - k)])},
     t \in {ArrayList(<<>>), ArrayList(<<ModelIssue(8)>>), UnsliceableList}}

\* `if (!list || list.length < 1) list = this.generateFallbackIssues(...).slice(0, 5)`
Validated(list, issues, category) ==
  IF list.kind = "missing" \/ (list.kind = "array" /\ Len(list.val) < 1)
  THEN ArrayList(Slice5(GenerateFallbackIssues(issues, category)))
  ELSE list

\* the catch block: the analysis made of local data only
\* (variant: the lists do not come from the records' issues)
AnalyzeCatchGeneric(evaluations) ==
  [summary |-> [some |-> TRUE, total_messages |-> Len(evaluations),
                avg_grammar_score |-> Average(evaluations, "grammar_score"),
                avg_punctuation_score |-> Average(evaluations, "punctuation_score"),
                avg_tone_score |-> Average(evaluations, "tone_score"),
                overall_assessment |->
                  "Analysis completed with partial data due to parsing error."],
   top_grammar_issues |-> <<GenericIssue("grammar")>>,
   top_punctuation_issues |-> <<GenericIssue("punctuation")>>,
   top_tone_issues |-> <<GenericIssue("tone")>>]

AnalyzeCatch(evaluations) ==
  [summary |-> [some |-> TRUE, total_messages |-> Len(evaluations),
                avg_grammar_score |-> Average(evaluations, "grammar_score"),
                avg_punctuation_score |-> Average(evaluations, "punctuation_score"),
                avg_tone_score |-> Average(evaluations, "tone_score"),
                overall_assessment |->
                  "Analysis completed with partial data due to parsing error."],
   top_grammar_issues |->
     Slice5(GenerateFallbackIssues(FlatMap(evaluations, "grammar_issues"), "grammar")),
   top_punctuation_issues |->
     Slice5(GenerateFallbackIssues(FlatMap(evaluations, "punctuation_issues"),
                                   "punctuation")),
   top_tone_issues |->
     Slice5(GenerateFallbackIssues(FlatMap(evaluations, "tone_issues"), "tone"))]

\* analyzePatterns from the settling of callClaude on: what it resolves with
AnalyzePatterns(evaluations, o) ==
  IF ~o.ok \/ o.body.kind # "object"
  THEN \* callClaude rejected, JSON.parse threw, or reading a field of null /
       \* writing a field of a primitive threw (TypeError)
       AnalyzeCatch(evaluations)
  ELSE LET analysis == o.body.obj
           g == Validated(analysis.top_grammar_issues,
                          FlatMap(evaluations, "grammar_issues"), "grammar")
           pu == Validated(analysis.top_punctuation_issues,
                           FlatMap(evaluations, "punctuation_issues"), "punctuation")
           t == Validated(analysis.top_tone_issues,
                          FlatMap(evaluations, "tone_issues"), "tone")
       IN IF "unsliceable" \in {g.kind, pu.kind, t.kind}
          THEN \* `.slice is not a function` (TypeError)
               AnalyzeCatch(evaluations)
          ELSE [summary |-> analysis.summary,
                top_grammar_issues |-> Slice5(g.val),
                top_punctuation_issues |-> Slice5(pu.val),
                top_tone_issues |-> Slice5(t.val)]

\* the records evaluateBatch may have produced
Text(words) == Join(words, <<" ">>)
EvaluationKinds ==
  {[grammar_score |-> 4, punctuation_score |-> 5, tone_score |-> 3,
    grammar_issues |-> <<Text(<<"Tense">>), <<" ", "tense">>, Text(<<"agreement">>),
                         Text(<<"missing", "article">>)>>,
    punctuation_issues |-> <<Text(<<"comma", "splice">>)>>,
    tone_issues |-> <<>>],
   [grammar_score |-> 5, punctuation_score |-> 5, tone_score |-> 5,
    grammar_issues |-> <<>>, punctuation_issues |-> <<>>, tone_issues |-> <<>>],
   [grammar_score |-> 2, punctuation_score |-> 1, tone_score |-> 4,
    grammar_issues |-> <<Text(<<"tense">>), Text(<<"fragment">>), Text(<<"run-on">>),
                         Text(<<"spelling">>), Text(<<"word", "choice">>), <<>>>>,
    punctuation_issues |-> <<<<" ">>, <<>>>>,
    tone_issues |-> <<Text(<<"too", "Casual">>), Text(<<"too", "casual">>),
                      <<"too", " ", "casual", " ">>>>]}

RECURSIVE ListsUpTo(_, _)
ListsUpTo(K, n) ==
  IF n = 0 THEN {<<>>}
  ELSE LET shorter == ListsUpTo(K, n - 1)
       IN shorter \cup {Append(x, k) : x \in shorter, k \in K}

NoAnalysis == [summary |-> NoSummary, top_grammar_issues |-> <<>>,
               top_punctuation_issues |-> <<>>, top_tone_issues |-> <<>>]

\* a call analyzePatterns(evaluations) is about to be made, on an idle client
InitAna ==
  /\ InitIdleScheduler(MaxClock, 1)
  /\ \E evaluations \in ListsUpTo(EvaluationKinds, MaxEvaluations) :
       ana = [pc |-> "init", evaluations |-> evaluations, task |-> 0,
              response |-> Pending, result |-> NoAnalysis]
  /\ OnlyCalls({"ana"})

\* analyzePatterns is called: runs up to `await this.callClaude(...)`
AnaStart ==
  /\ ana.pc = "init"
  /\ Enqueue(tasks)
  /\ ana' = [ana EXCEPT !.pc = "await", !.task = nextTask]
  /\ UNCHANGED exceptAna

\* callClaude's promise has settled: the rest of the try block or the catch
\* block, and analyzePatterns resolves
AnaResume ==
  /\ ana.pc = "await"
  /\ tasks[ana.task].state = "settled"
  /\ LET o == tasks[ana.task].delivered
     IN /\ ana' = [ana EXCEPT !.pc = "done", !.response = o,
                              !.result = AnalyzePatterns(ana.evaluations, o)]
        /\ tasks' = [tasks EXCEPT ![ana.task].delivered = Taken,
                                  ![ana.task].outcome = Taken]
  /\ UNCHANGED <<clock, requestQueue, isProcessing, lastRequestTime, loops,
                 nextTask, inflight, startLog>>
  /\ UNCHANGED exceptAna

AnaNext ==
  \/ AnaStart
  \/ AnaResume
  \/ \E l \in LoopIds : TimerFire(l)
  \/ \E l \in LoopIds, o \in AnaOutcomes(ana.evaluations) : TaskSettle(l, o)
  \/ Tick

AnaSpec == InitAna /\ [][AnaNext]_vars

\* -------------------------------------------- generatePracticeQuestions
\* `s${sessionNumber}_q${k}`
QuestionId(sessionNumber, k) == [session |-> sessionNumber, q |-> k]

\* the two questions generateFallbackQuestions pushes for issues[idx]
\* (idx counts from 0)
FallbackPair(issue, idx, sessionNumber) ==
  <<[question_id |-> QuestionId(sessionNumber, idx * 2 + 1),
     issue_type |-> "grammar", specific_issue |-> issue.issue,
     question_format |-> "correction",
     correct_answer |-> "See explanation for guidance",
     options |-> <<>>, explanation |-> issue.recommendation],
    [question_id |-> QuestionId(sessionNumber, idx * 2 + 2),
     issue_type |-> "grammar", specific_issue |-> issue.issue,
     question_format |-> "multiple_choice",
     correct_answer |-> "A",
     options |-> <<"A) Correct usage example", "B) Incorrect usage",
                   "C) Incorrect usage", "D) Incorrect usage">>,
     explanation |-> issue.recommendation]>>

\* Array.prototype.slice(0, 3)
Slice3(list) == SubSeq(list, 1, Min(3, Len(list)))

RECURSIVE FallbackPairs(_, _, _)
FallbackPairs(issues, idx, sessionNumber) ==
  IF idx >= Len(issues) THEN <<>>
  ELSE FallbackPair(issues[idx + 1], idx, sessionNumber)
       \o FallbackPairs(issues, idx + 1, sessionNumber)

GenerateFallbackQuestions(issues, sessionNumber) ==
  FallbackPairs(Slice3(issues), 0, sessionNumber)

\* a question written by the model
ModelQuestion(sessionNumber, k) ==
  [question_id |-> QuestionId(sessionNumber, k), issue_type |-> "tone",
   specific_issue |-> <<"issue chosen by the model">>,
   question_format |-> "writing_prompt",
   correct_answer |-> "answer of the model", options |-> <<>>,
   explanation |-> <<"explanation of the model">>]

\* the model's possible answers to the generation prompt: rejected, not
\* JSON, JSON but no array, an array of no, one or six questions
GenOutcomes(sessionNumber) ==
  {[ok |-> FALSE, body |-> NoBody],
   [ok |-> TRUE, body |-> [kind |-> "unparseable", arr |-> <<>>]],
   [ok |-> TRUE, body |-> [kind |-> "nonarray", arr |-> <<>>]]}
  \cup {ArrayOutcome([k \in 1..n |-> ModelQuestion(sessionNumber, k)]) :
          n \in {0, 1, 6}}

\* generatePracticeQuestions from the settling of callClaude on
\* (variant: without the Array.isArray test, what was parsed is returned)
GeneratePracticeQuestionsUntested(issues, sessionNumber, o) ==
  LET topIssues == Slice3(issues)
  IN IF ~o.ok \/ o.body.kind = "unparseable"
     THEN GenerateFallbackQuestions(topIssues, sessionNumber)
     ELSE o.body.arr

GeneratePracticeQuestions(issues, sessionNumber, o) ==
  LET topIssues == Slice3(issues)
  IN IF ~o.ok \/ o.body.kind # "array"
     THEN \* callClaude rejected, JSON.parse threw, or 'Response is not an array'
          GenerateFallbackQuestions(topIssues, sessionNumber)
     ELSE o.body.arr

\* the issues of an Analysis
IssueKinds ==
  {[issue |-> <<"tense">>, frequency |-> 6, severity |-> "high",
    recommendation |-> <<"Review and practice", "grammar", "rules related to:",
                         "tense">>],
   GenericIssue("tone")}

\* a call generatePracticeQuestions(issues, sessionNumber) is about to be
\* made, on an idle client
InitGen ==
  /\ InitIdleScheduler(MaxClock, 1)
  /\ \E issues \in ListsUpTo(IssueKinds, MaxIssues), sessionNumber \in 1..2 :
       gen = [pc |-> "init", issues |-> issues, sessionNumber |-> sessionNumber,
              task |-> 0, response |-> Pending, questions |-> <<>>]
  /\ OnlyCalls({"gen"})

\* generatePracticeQuestions is called: runs up to `await this.callClaude(...)`
GenStart ==
  /\ gen.pc = "init"
  /\ Enqueue(tasks)
  /\ gen' = [gen EXCEPT !.pc = "await", !.task = nextTask]
  /\ UNCHANGED exceptGen

\* callClaude's promise has settled: the rest of the try block or the catch
\* block, and generatePracticeQuestions resolves
GenResume ==
  /\ gen.pc = "await"
  /\ tasks[gen.task].state = "settled"
  /\ LET o == tasks[gen.task].delivered
     IN /\ gen' = [gen EXCEPT !.pc = "done", !.response = o,
                              !.questions = GeneratePracticeQuestions(
                                              gen.issues, gen.sessionNumber, o)]
        /\ tasks' = [tasks EXCEPT ![gen.task].delivered = Taken,
                                  ![gen.task].outcome = Taken]
  /\ UNCHANGED <<clock, requestQueue, isProcessing, lastRequestTime, loops,
                 nextTask, inflight, startLog>>
  /\ UNCHANGED exceptGen

GenNext ==
  \/ GenStart
  \/ GenResume
  \/ \E l \in LoopIds : TimerFire(l)
  \/ \E l \in LoopIds, o \in GenOutcomes(gen.sessionNumber) : TaskSettle(l, o)
  \/ Tick

GenSpec == InitGen /\ [][GenNext]_vars

\* ------------------------------------------------ gradePracticeSession
\* An answer is the sequence of its words (the whitespace between them left
\* out).  A word is [w, cap, dot]: which word it is, whether it is written
\* with a capital, whether a punctuation mark of [.,!?;:] follows it.
\* Words 1..20 and beyond begin with a letter outside a..d; words 101..104
\* are the single letters a, b, c, d.
Word(k) == [w |-> k, cap |-> FALSE, dot |-> FALSE]
Sentence(n) == [k \in 1..n |-> Word(k)]

\* String.prototype.toLowerCase on an answer
LowerAnswer(text) == [q \in 1..Len(text) |-> [text[q] EXCEPT !.cap = FALSE]]

\* str.replace(/[.,!?;:]/g, '').split(/\s+/).filter(w => w.length > 0), as a Set
WordSet(text) == {[text[q] EXCEPT !.dot = FALSE] : q \in 1..Len(text)}

\* calculateSimilarity: intersection.size / union.size as a fraction, 0 when
\* the union is empty
CalculateSimilarity(str1, str2) ==
  LET words1 == WordSet(str1)
      words2 == WordSet(str2)
  IN IF words1 \cup words2 = {} THEN Ratio(0, 1)
     ELSE Ratio(Cardinality(words1 \cap words2), Cardinality(words1 \cup words2))

\* `similarity > 0.90`, `similarity > 0.75`
\* (variant: `>=`)
AtLeast(similarity, percent) == 100 * similarity.sum >= percent * similarity.n
Above(similarity, percent) == 100 * similarity.sum > percent * similarity.n

\* the first letter of a word, in upper case
Initial(k) ==
  CASE k = 101 -> "A" [] k = 102 -> "B" [] k = 103 -> "C" [] k = 104 -> "D"
    [] OTHER -> "W"

\* extractLetter: the first A-D that begins a word of the upper-cased
\* text, else the first character of the text, else ''
ExtractLetter(text) ==
  LET hits == {q \in 1..Len(text) : Initial(text[q].w) \in {"A", "B", "C", "D"}}
  IN IF hits # {}
     THEN Initial(text[CHOOSE q \in hits : \A r \in hits : q <= r].w)
     ELSE IF text = <<>> THEN "" ELSE Initial(text[1].w)

GradingResult(idx, q, correct, feedback, method) ==
  [question |-> idx, issue |-> q.specific_issue, correct |-> correct,
   feedback |-> feedback, correct_answer |-> q.correct_answer,
   explanation |-> q.explanation, grading_method |-> method]

\* `userAnswers[q.question_id] || ''`: the words of the answer given
UserAnswer(userAnswers, q) ==
  IF userAnswers[q.question_id].given THEN userAnswers[q.question_id].words
  ELSE <<>>

\* the first pass on question q, the idx-th: its result if it is graded at
\* once; Deferred if it is pushed onto needsLLM
Deferred ==
  [question |-> 0, issue |-> <<>>, correct |-> FALSE, feedback |-> "",
   correct_answer |-> <<>>, explanation |-> <<>>, grading_method |-> "deferred"]
FirstPass(idx, q, userAnswer) ==
  LET similarity == CalculateSimilarity(LowerAnswer(userAnswer),
                                        LowerAnswer(q.correct_answer))
      userLetter == ExtractLetter(userAnswer)
      correctLetter == ExtractLetter(q.correct_answer)
  IN IF userAnswer = <<>>   \* `!userAnswer.trim()`
     THEN GradingResult(idx, q, FALSE, "No answer provided", "programmatic")
     ELSE IF q.question_format = "multiple_choice"
     THEN GradingResult(idx, q, userLetter = correctLetter,
                        IF userLetter = correctLetter THEN "Correct!"
                        ELSE "Incorrect. The correct answer is "
                             \o correctLetter \o ".",
                        "programmatic")
     ELSE IF q.question_format \in {"correction", "writing_prompt"}
             /\ Above(similarity, 90)
     THEN GradingResult(idx, q, TRUE, "Correct!", "similarity")
     ELSE IF q.question_format = "correction" /\ Above(similarity, 75)
     THEN GradingResult(idx, q, TRUE,
                        "Correct! Minor wording differences are acceptable.",
                        "similarity")
     ELSE Deferred

\* results and needsLLM (the question numbers) after questions.forEach
RECURSIVE LocalResults(_, _, _)
LocalResults(questions, userAnswers, idx) ==
  IF idx > Len(questions) THEN <<>>
  ELSE LET r == FirstPass(idx, questions[idx],
                          UserAnswer(userAnswers, questions[idx]))
       IN (IF r = Deferred THEN <<>> ELSE <<r>>)
          \o LocalResults(questions, userAnswers, idx + 1)
RECURSIVE NeedsLLM(_, _, _)
NeedsLLM(questions, userAnswers, idx) ==
  IF idx > Len(questions) THEN <<>>
  ELSE LET r == FirstPass(idx, questions[idx],
                          UserAnswer(userAnswers, questions[idx]))
       IN (IF r = Deferred THEN <<idx>> ELSE <<>>)
          \o NeedsLLM(questions, userAnswers, idx + 1)

\* `if (needsLLM.length > 0)`
\* (variant: the grading call is made whatever is deferred)
SecondPassAlways(needsLLM) == TRUE
SecondPass(needsLLM) == Len(needsLLM) > 0

\* One entry of the array the model returns; truthy: the entry passes
\* `llmGrades[i] || {...}`
NullGrade == [truthy |-> FALSE, is_correct |-> FALSE, feedback |-> ""]
ModelGrade(c) ==
  [truthy |-> TRUE, is_correct |-> c, feedback |-> "feedback of the model"]
DefaultGrade == [truthy |-> TRUE, is_correct |-> FALSE, feedback |-> "Unable to grade"]

\* the catch block of the second pass: the results pushed for needsLLM
\* (variant: nothing is pushed)
GradeCatchSilent(questions, needsLLM) == <<>>
GradeCatch(questions, needsLLM) ==
  [i \in 1..Len(needsLLM) |->
     GradingResult(needsLLM[i], questions[needsLLM[i]], FALSE,
       "Unable to grade automatically. Please review the correct answer.",
       "llm")]

\* (variant: a deferred question without a grade gets no result)
LlmResultsShort(questions, needsLLM, o) ==
  IF ~o.ok \/ o.body.kind \in {"unparseable", "null"}
  THEN GradeCatch(questions, needsLLM)
  ELSE [i \in 1..Min(Len(needsLLM), Len(o.body.arr)) |->
          GradingResult(needsLLM[i], questions[needsLLM[i]],
                        o.body.arr[i].is_correct, o.body.arr[i].feedback, "llm")]
\* the second pass from the settling of callClaude on: the results pushed
LlmResults(questions, needsLLM, o) ==
  IF ~o.ok \/ o.body.kind \in {"unparseable", "null"}
  THEN \* callClaude rejected, JSON.parse threw, or `llmGrades[0]` threw on null
       GradeCatch(questions, needsLLM)
  ELSE [i \in 1..Len(needsLLM) |->
          LET llmGrades == o.body.arr
              grade == IF i <= Len(llmGrades) /\ llmGrades[i].truthy
                       THEN llmGrades[i] ELSE DefaultGrade
          IN GradingResult(needsLLM[i], questions[needsLLM[i]],
                           grade.is_correct, grade.feedback, "llm")]

\* results.sort((a, b) => a.question - b.question): a stable insertion
RECURSIVE Insert(_, _)
Insert(sorted, r) ==
  IF sorted = <<>> THEN <<r>>
  ELSE IF sorted[Len(sorted)].question <= r.question THEN Append(sorted, r)
  ELSE Append(Insert(SubSeq(sorted, 1, Len(sorted) - 1), r), sorted[Len(sorted)])
RECURSIVE SortByQuestion(_)
SortByQuestion(results) ==
  IF results = <<>> THEN <<>>
  ELSE Insert(SortByQuestion(SubSeq(results, 1, Len(results) - 1)),
              results[Len(results)])

\* the model's possible answers to the grading prompt for k questions:
\* rejected, not JSON, JSON null, JSON but no array, and arrays: all
\* correct, all incorrect, a null first, one entry short, one too many
GrdOutcomes(k) ==
  {[ok |-> FALSE, body |-> NoBody],
   [ok |-> TRUE, body |-> [kind |-> "unparseable", arr |-> <<>>]],
   [ok |-> TRUE, body |-> [kind |-> "null", arr |-> <<>>]],
   [ok |-> TRUE, body |-> [kind |-> "nonarray", arr |-> <<>>]],
   ArrayOutcome([i \in 1..k |-> ModelGrade(TRUE)]),
   ArrayOutcome([i \in 1..k |-> ModelGrade(FALSE)]),
   ArrayOutcome([i \in 1..k |-> IF i = 1 THEN NullGrade ELSE ModelGrade(TRUE)]),
   ArrayOutcome([i \in 1..(k - 1) |-> ModelGrade(TRUE)]),
   ArrayOutcome([i \in 1..(k + 1) |-> ModelGrade(TRUE)])}

\* a question of a session and the answer the user gave to it
Given(words) == [given |-> TRUE, words |-> words]
NotGiven == [given |-> FALSE, words |-> <<>>]
Question(format, correct_answer) ==
  [question_format |-> format, correct_answer |-> correct_answer,
   specific_issue |-> <<"tense">>, explanation |-> <<"advice">>]
Written == [k \in 1..20 |-> [w |-> k, cap |-> k = 1, dot |-> k = 20]]
LetterB == <<[w |-> 102, cap |-> TRUE, dot |-> FALSE]>>
LetterC == <<Word(103)>>
Answered ==
  {[q |-> Question("correction", Written), a |-> NotGiven],
   [q |-> Question("correction", Written), a |-> Given(Sentence(20))],
   [q |-> Question("correction", Written), a |-> Given(Sentence(18))],
   [q |-> Question("correction", Written), a |-> Given(Sentence(15))],
   [q |-> Question("writing_prompt", Written), a |-> Given(<<>>)],
   [q |-> Question("writing_prompt", Written), a |-> Given(Sentence(19))],
   [q |-> Question("writing_prompt", Written), a |-> Given(Sentence(18))],
   [q |-> Question("multiple_choice", LetterB), a |-> Given(<<Word(102)>>)],
   [q |-> Question("multiple_choice", LetterB), a |-> Given(LetterC)],
   [q |-> Question("multiple_choice", LetterB), a |-> Given(Sentence(3))],
   [q |-> Question("multiple_choice", LetterB),
    a |-> Given(<<Word(1), Word(102)>>)],
   [q |-> Question("fill_in", Written), a |-> Given(Written)]}

NoTask == 0

\* a call gradePracticeSession(questions, userAnswers) is about to be made,
\* on an idle client; question k has the id k
InitGrd ==
  /\ InitIdleScheduler(MaxClock, 1)
  /\ \E session \in ListsUpTo(Answered, MaxQuestions) :
       grd = [pc |-> "init",
              questions |-> [k \in 1..Len(session) |->
                               [question_id |-> k] @@ session[k].q],
              userAnswers |-> [k \in 1..Len(session) |-> session[k].a],
              results |-> <<>>, needsLLM |-> <<>>, task |-> NoTask,
              response |-> Pending]
  /\ OnlyCalls({"grd"})

\* gradePracticeSession is called: the first pass, then either the return
\* of the sorted results or the second pass up to `await this.callClaude(...)`
GrdStart ==
  /\ grd.pc = "init"
  /\ LET results == LocalResults(grd.questions, grd.userAnswers, 1)
         needsLLM == NeedsLLM(grd.questions, grd.userAnswers, 1)
     IN IF SecondPass(needsLLM)
        THEN /\ Enqueue(tasks)
             /\ grd' = [grd EXCEPT !.pc = "await", !.results = results,
                                   !.needsLLM = needsLLM, !.task = nextTask]
        ELSE /\ grd' = [grd EXCEPT !.pc = "done",
                                   !.results = SortByQuestion(results),
                                   !.needsLLM = needsLLM]
             /\ UNCHANGED schedVars
  /\ UNCHANGED exceptGrd

\* callClaude's promise has settled: the rest of the try block or the catch
\* block, the sort, and gradePracticeSession resolves
GrdResume ==
  /\ grd.pc = "await"
  /\ tasks[grd.task].state = "settled"
  /\ LET o == tasks[grd.task].delivered
     IN /\ grd' = [grd EXCEPT
                     !.pc = "done", !.response = o,
                     !.results = SortByQuestion(
                        grd.results \o LlmResults(grd.questions, grd.needsLLM, o))]
        /\ tasks' = [tasks EXCEPT ![grd.task].delivered = Taken,
                                  ![grd.task].outcome = Taken]
  /\ UNCHANGED <<clock, requestQueue, isProcessing, lastRequestTime, loops,
                 nextTask, inflight, startLog>>
  /\ UNCHANGED exceptGrd

GrdNext ==
  \/ GrdStart
  \/ GrdResume
  \/ \E l \in LoopIds : TimerFire(l)
  \/ \E l \in LoopIds, o \in GrdOutcomes(Len(grd.needsLLM)) : TaskSettle(l, o)
  \/ Tick

GrdSpec == InitGrd /\ [][GrdNext]_vars

\* ------------------------------------------ generateComparisonAnalysis
\* Numbers are fractions sum / n; n = 0 holds the values a division by zero
\* gives: 1 / 0 is Infinity, -1 / 0 is -Infinity, 0 / 0 is NaN.
IsNaN(x) == x.n = 0 /\ x.sum = 0
IsFinite(x) == x.n # 0
Sign(k) == IF k > 0 THEN 1 ELSE IF k < 0 THEN -1 ELSE 0

\* a + b and a - b
Plus(a, b) ==
  IF IsNaN(a) \/ IsNaN(b) THEN Ratio(0, 0)
  ELSE IF ~IsFinite(a) /\ ~IsFinite(b)
       THEN (IF a.sum = b.sum THEN a ELSE Ratio(0, 0))
  ELSE IF ~IsFinite(a) THEN a
  ELSE IF ~IsFinite(b) THEN b
  ELSE Ratio(a.sum * b.n + b.sum * a.n, a.n * b.n)
Minus(a, b) == Plus(a, Ratio(-b.sum, b.n))

\* a / b for a and b that are finite or NaN
Divide(a, b) ==
  IF IsNaN(a) \/ IsNaN(b) THEN Ratio(0, 0)
  ELSE IF b.sum = 0 THEN Ratio(Sign(a.sum), 0)
  ELSE Ratio(a.sum * b.n * Sign(b.sum), a.n * b.sum * Sign(b.sum))

\* x * k and x / k for a positive integer k
Times(x, k) == IF IsFinite(x) THEN Ratio(x.sum * k, x.n) ELSE x
Over(x, k) == IF IsFinite(x) THEN Ratio(x.sum, x.n * k) ELSE x

\* x > k for an integer k (false for NaN)
Exceeds(x, k) ==
  IF IsFinite(x) THEN x.sum > k * x.n ELSE x.sum > 0

\* `((followup - baseline) / baseline) * 100`
ChangePercent(baseline, followup) ==
  Times(Divide(Minus(followup, baseline), baseline), 100)

\* one entry of `comparison`
ScoreChange(baseline, followup) ==
  [baseline |-> baseline, followup |-> followup,
   change |-> Minus(followup, baseline),
   changePercent |-> ChangePercent(baseline, followup)]

\* [...a.top_grammar_issues, ...a.top_punctuation_issues, ...a.top_tone_issues]
AllIssues(analysis) ==
  analysis.top_grammar_issues \o analysis.top_punctuation_issues
    \o analysis.top_tone_issues

\* new Set(... .map(i => i.issue.toLowerCase()))
\* (variant: the names are compared as written)
IssueNamesExact(analysis) ==
  {AllIssues(analysis)[k].issue : k \in 1..Len(AllIssues(analysis))}
IssueNames(analysis) ==
  {ToLowerCase(AllIssues(analysis)[k].issue) : k \in 1..Len(AllIssues(analysis))}

\* list.filter(issue => names.has(issue.issue.toLowerCase()) === wanted)
RECURSIVE FilterByName(_, _, _)
FilterByName(list, names, wanted) ==
  IF list = <<>> THEN <<>>
  ELSE (IF (ToLowerCase(Head(list).issue) \in names) = wanted
        THEN <<Head(list)>> ELSE <<>>)
         \o FilterByName(Tail(list), names, wanted)

\* the catch block: the summary written without the model
FallbackSummary(comparison, resolved) ==
  LET avgChange == Over(Plus(Plus(comparison.grammar.changePercent,
                                  comparison.punctuation.changePercent),
                             comparison.tone.changePercent), 3)
  IN IF Exceeds(avgChange, 5)
     THEN [kind |-> "great progress", avgChange |-> avgChange,
           resolved |-> Len(resolved)]
     ELSE IF Exceeds(avgChange, 0)
     THEN [kind |-> "steady progress", avgChange |-> Ratio(0, 1), resolved |-> 0]
     ELSE [kind |-> "stable", avgChange |-> Ratio(0, 1), resolved |-> 0]
ModelSummary == [kind |-> "text of the model", avgChange |-> Ratio(0, 1),
                 resolved |-> 0]

\* generateComparisonAnalysis from the settling of callClaude on
GenerateComparisonAnalysis(baselineAnalysis, followupAnalysis, o) ==
  LET comparison ==
        [grammar |-> ScoreChange(baselineAnalysis.summary.avg_grammar_score,
                                 followupAnalysis.summary.avg_grammar_score),
         punctuation |-> ScoreChange(baselineAnalysis.summary.avg_punctuation_score,
                                     followupAnalysis.summary.avg_punctuation_score),
         tone |-> ScoreChange(baselineAnalysis.summary.avg_tone_score,
                              followupAnalysis.summary.avg_tone_score)]
      baselineIssueNames == IssueNames(baselineAnalysis)
      followupIssueNames == IssueNames(followupAnalysis)
      resolved == FilterByName(AllIssues(baselineAnalysis), followupIssueNames, FALSE)
      persistent == FilterByName(AllIssues(followupAnalysis), baselineIssueNames, TRUE)
      newIssues == FilterByName(AllIssues(followupAnalysis), baselineIssueNames, FALSE)
  IN [comparison |-> comparison,
      issueComparison |-> [resolved |-> resolved, persistent |-> persistent,
                           newIssues |-> newIssues],
      overallImprovement |->
        IF o.ok THEN ModelSummary ELSE FallbackSummary(comparison, resolved)]

\* the model's possible answers to the assessment prompt
CmpOutcomes ==
  {[ok |-> FALSE, body |-> NoBody],
   [ok |-> TRUE, body |-> [kind |-> "text", arr |-> <<>>]]}

\* analyses as analyzePatterns returns them: the summary is the model's or
\* the local one, the lists hold up to five issues each
IssueNamed(name, frequency) ==
  [issue |-> name, frequency |-> frequency,
   severity |-> Severity(frequency), recommendation |-> <<"advice">>]
Scores(g, p, t) ==
  [some |-> TRUE, total_messages |-> 3, avg_grammar_score |-> g,
   avg_punctuation_score |-> p, avg_tone_score |-> t,
   overall_assessment |-> "assessment of the model"]
AnalysisKinds ==
  {[summary |-> Scores(Ratio(11, 3), Ratio(4, 1), Ratio(3, 1)),
    top_grammar_issues |-> <<IssueNamed(<<"Tense">>, 3)>>,
    top_punctuation_issues |-> <<IssueNamed(<<"comma", " ", "splice">>, 2)>>,
    top_tone_issues |-> <<IssueNamed(<<"too", " ", "Casual">>, 1)>>],
   [summary |-> Scores(Ratio(4, 1), Ratio(4, 1), Ratio(5, 2)),
    top_grammar_issues |-> <<>>,
    top_punctuation_issues |-> <<IssueNamed(<<"run-on">>, 1)>>,
    top_tone_issues |-> <<IssueNamed(<<"too", " ", "casual">>, 4)>>],
   [summary |-> Scores(Ratio(0, 1), Ratio(5, 1), Ratio(0, 1)),
    top_grammar_issues |-> <<IssueNamed(<<"tense">>, 1), IssueNamed(<<"Tense">>, 1)>>,
    top_punctuation_issues |-> <<>>,
    top_tone_issues |-> <<IssueNamed(<<"tense">>, 2)>>],
   [summary |-> Scores(Ratio(5, 1), Ratio(0, 1), Ratio(1, 1)),
    top_grammar_issues |-> <<>>, top_punctuation_issues |-> <<>>,
    top_tone_issues |-> <<>>],
   [summary |-> NoSummary,
    top_grammar_issues |-> <<IssueNamed(<<"Tense">>, 3)>>,
    top_punctuation_issues |-> <<>>, top_tone_issues |-> <<>>]}

NoChange == [baseline |-> Ratio(0, 1), followup |-> Ratio(0, 1),
             change |-> Ratio(0, 1), changePercent |-> Ratio(0, 1)]
NoComparison ==
  [comparison |-> [grammar |-> NoChange, punctuation |-> NoChange, tone |-> NoChange],
   issueComparison |-> [resolved |-> <<>>, persistent |-> <<>>, newIssues |-> <<>>],
   overallImprovement |-> ModelSummary]

\* a call generateComparisonAnalysis(baselineAnalysis, followupAnalysis, ...)
\* is about to be made, on an idle client
InitCmp ==
  /\ InitIdleScheduler(MaxClock, 1)
  /\ \E b \in AnalysisKinds, f \in AnalysisKinds :
       cmp = [pc |-> "init", baselineAnalysis |-> b, followupAnalysis |-> f,
              task |-> NoTask, response |-> Pending, result |-> NoComparison]
  /\ OnlyCalls({"cmp"})

\* generateComparisonAnalysis is called: reading a score of a missing
\* summary throws (the promise rejects); otherwise it runs up to
\* `await this.callClaude(...)`
CmpStart ==
  /\ cmp.pc = "init"
  /\ IF cmp.baselineAnalysis.summary.some /\ cmp.followupAnalysis.summary.some
     THEN /\ Enqueue(tasks)
          /\ cmp' = [cmp EXCEPT !.pc = "await", !.task = nextTask]
     ELSE /\ cmp' = [cmp EXCEPT !.pc = "rejected"]
          /\ UNCHANGED schedVars
  /\ UNCHANGED exceptCmp

\* callClaude's promise has settled: the trim or the catch block, and
\* generateComparisonAnalysis resolves
CmpResume ==
  /\ cmp.pc = "await"
  /\ tasks[cmp.task].state = "settled"
  /\ LET o == tasks[cmp.task].delivered
     IN /\ cmp' = [cmp EXCEPT
                     !.pc = "done", !.response = o,
                     !.result = GenerateComparisonAnalysis(cmp.baselineAnalysis,
                                                           cmp.followupAnalysis, o)]
        /\ tasks' = [tasks EXCEPT ![cmp.task].delivered = Taken,
                                  ![cmp.task].outcome = Taken]
  /\ UNCHANGED <<clock, requestQueue, isProcessing, lastRequestTime, loops,
                 nextTask, inflight, startLog>>
  /\ UNCHANGED exceptCmp

CmpNext ==
  \/ CmpStart
  \/ CmpResume
  \/ \E l \in LoopIds : TimerFire(l)
  \/ \E l \in LoopIds, o \in CmpOutcomes : TaskSettle(l, o)
  \/ Tick

CmpSpec == InitCmp /\ [][CmpNext]_vars

\* ------------------------------- App: handleEvaluation, handleReEvaluation
\* `if (limitedFiltered.length === 0)` and `if (confirmed.length === 0)`
\* (variant: the run goes on with nothing)
NoSurvivorsIgnored(list) == FALSE
NoSurvivors(list) == Len(list) = 0

\* the `throw new Error(...)` of each handler at each stage
StageError(handler, stage) ==
  IF stage = "heuristic"
  THEN (IF handler = "handleEvaluation"
        THEN "No writing-related messages found in selected range"
        ELSE "No writing-related messages found in selected conversations")
  ELSE (IF handler = "handleEvaluation"
        THEN "No messages confirmed as writing-related by LLM"
        ELSE "No messages confirmed as writing-related")

\* the words of an issue description that evaluateBatch stored as a string
Spelled(issue) ==
  CASE issue = "tense inconsistency" -> <<"tense", " ", "inconsistency">>
    [] issue = "too casual" -> <<"too", " ", "casual">>
    [] issue = "Error evaluating this message" ->
         <<"Error", " ", "evaluating", " ", "this", " ", "message">>
    [] issue = "Error: No evaluation returned" ->
         <<"Error:", " ", "No", " ", "evaluation", " ", "returned">>
    [] OTHER -> <<issue>>
SpelledAll(issues) == [k \in 1..Len(issues) |-> Spelled(issues[k])]
AsEvaluations(allResults) ==
  [k \in 1..Len(allResults) |->
     [allResults[k] EXCEPT
        !.grammar_issues = SpelledAll(@),
        !.punctuation_issues = SpelledAll(@),
        !.tone_issues = SpelledAll(@)]]

\* the uploads of a run: no user message, one the heuristic rejects, one
\* or two it keeps, one of each
RunUploads ==
  {<<>>, <<ShortEssay>>, <<LongProse>>, <<ShortEssay, LongProse>>,
   <<LongProse, LongProse>>}

\* the model's possible answers at each stage of a run
RunOutcomes ==
  IF flt.pc = "await"
  THEN {[ok |-> FALSE, body |-> NoBody],
        ArrayOutcome([j \in 1..Len(FilterBatch) |-> "false"]),
        ArrayOutcome([j \in 1..Len(FilterBatch) |-> "true"]),
        ArrayOutcome([j \in 1..Len(FilterBatch) |->
                        IF j = 1 THEN "false" ELSE "true"])}
  ELSE IF evl.pc = "await"
  THEN {[ok |-> FALSE, body |-> NoBody],
        ArrayOutcome([j \in 1..Len(EvalBatch) |-> ValidEntry(evl.i + j)]),
        ArrayOutcome(<<>>)}
  ELSE IF ana.pc = "await"
  THEN {[ok |-> FALSE, body |-> NoBody],
        [ok |-> TRUE,
         body |-> [kind |-> "object", arr |-> <<>>,
                   obj |-> [summary |-> OwnSummary(ana.evaluations),
                            top_grammar_issues |-> ArrayList(<<ModelIssue(8)>>),
                            top_punctuation_issues |-> MissingList,
                            top_tone_issues |-> ArrayList(<<>>)]]]}
  ELSE CmpOutcomes

NoError == "none"

\* a handler of App is about to run on an uploaded export, the client
\* idle; handleReEvaluation has a baseline analysis
InitRun ==
  /\ InitIdleScheduler(MaxClock, 4)
  /\ \E parts \in RunUploads, handler \in {"handleEvaluation", "handleReEvaluation"} :
       app = [pc |-> "init", handler |-> handler, parts |-> parts,
              limitedFiltered |-> <<>>, error |-> NoError,
              baselineAnalysis |->
                IF handler = "handleEvaluation" THEN NoAnalysis
                ELSE CHOOSE a \in AnalysisKinds :
                       a.summary.avg_grammar_score = Ratio(4, 1),
              hasBaseline |-> handler = "handleReEvaluation",
              followupAnalysis |-> NoAnalysis, hasFollowup |-> FALSE,
              hasResult |-> FALSE]
  /\ OnlyCalls({"app"})

\* the handler up to `await api.filterRelevantMessagesLLM(...)`: parse,
\* heuristic filter, slice(0, 20), the first test for survivors
RunStart ==
  /\ app.pc = "init"
  /\ LET parsedMessages == ParseChatLogs(app.parts, 1, <<>>)
         filtered == FilterMessagesHeuristic(parsedMessages, 1)
         limitedFiltered == Slice(filtered, 0, 20)
     IN IF NoSurvivors(limitedFiltered)
        THEN /\ app' = [app EXCEPT !.pc = "failed",
                                   !.error = StageError(app.handler, "heuristic")]
             /\ UNCHANGED flt
        ELSE /\ app' = [app EXCEPT !.pc = "confirming",
                                   !.limitedFiltered = limitedFiltered]
             /\ flt' = [pc |-> "init", messages |-> limitedFiltered,
                        batchSize |-> 10, i |-> 0, relevant |-> <<>>,
                        task |-> 0, wakeAt |-> 0, response |-> Pending]
  /\ UNCHANGED <<evl, san, heu, ana, gen, grd, cmp, prs, ses>>
  /\ UNCHANGED schedVars

\* filterRelevantMessagesLLM has resolved: the second test for survivors,
\* then `await api.evaluateBatch(confirmed, ...)`
RunConfirmed ==
  /\ app.pc = "confirming"
  /\ flt.pc = "done"
  /\ LET confirmed == flt.relevant
     IN IF NoSurvivors(confirmed)
        THEN /\ app' = [app EXCEPT !.pc = "failed",
                                   !.error = StageError(app.handler, "confirmation")]
             /\ UNCHANGED evl
        ELSE /\ app' = [app EXCEPT !.pc = "evaluating"]
             /\ evl' = [pc |-> "init", messages |-> confirmed, i |-> 0,
                        allResults |-> <<>>, task |-> 0, wakeAt |-> 0,
                        response |-> Pending]
  /\ UNCHANGED <<flt, san, heu, ana, gen, grd, cmp, prs, ses>>
  /\ UNCHANGED schedVars

\* evaluateBatch has resolved: `await api.analyzePatterns(evaluations, ...)`
RunEvaluated ==
  /\ app.pc = "evaluating"
  /\ evl.pc = "done"
  /\ app' = [app EXCEPT !.pc = "analyzing"]
  /\ ana' = [pc |-> "init", evaluations |-> AsEvaluations(evl.allResults),
             task |-> 0, response |-> Pending, result |-> NoAnalysis]
  /\ UNCHANGED <<flt, evl, san, heu, gen, grd, cmp, prs, ses>>
  /\ UNCHANGED schedVars

\* analyzePatterns has resolved: handleEvaluation stores the baseline;
\* handleReEvaluation stores the followup and runs up to
\* `await api.generateComparisonAnalysis(...)`
RunAnalyzed ==
  /\ app.pc = "analyzing"
  /\ ana.pc = "done"
  /\ IF app.handler = "handleEvaluation"
     THEN /\ app' = [app EXCEPT !.pc = "done", !.baselineAnalysis = ana.result,
                                !.hasBaseline = TRUE]
          /\ UNCHANGED cmp
     ELSE /\ app' = [app EXCEPT !.pc = "comparing",
                                !.followupAnalysis = ana.result,
                                !.hasFollowup = TRUE]
          /\ cmp' = [pc |-> "init", baselineAnalysis |-> app.baselineAnalysis,
                     followupAnalysis |-> ana.result, task |-> NoTask,
                     response |-> Pending, result |-> NoComparison]
  /\ UNCHANGED <<flt, evl, san, heu, ana, gen, grd, prs, ses>>
  /\ UNCHANGED schedVars

\* generateComparisonAnalysis has settled: the result is stored, or the
\* catch block reports the rejection
RunCompared ==
  /\ app.pc = "comparing"
  /\ cmp.pc \in {"done", "rejected"}
  /\ app' = IF cmp.pc = "done"
            THEN [app EXCEPT !.pc = "done", !.hasResult = TRUE]
            ELSE [app EXCEPT !.pc = "failed",
                             !.error = "Cannot read properties of undefined"]
  /\ UNCHANGED <<flt, evl, san, heu, ana, gen, grd, cmp, prs, ses>>
  /\ UNCHANGED schedVars

RunNext ==
  \/ RunStart
  \/ FilterStart
  \/ FilterResume
  \/ RunConfirmed
  \/ EvalStart
  \/ EvalResume
  \/ RunEvaluated
  \/ AnaStart
  \/ AnaResume
  \/ RunAnalyzed
  \/ CmpStart
  \/ CmpResume
  \/ RunCompared
  \/ \E l \in LoopIds : TimerFire(l)
  \/ \E l \in LoopIds, o \in RunOutcomes : TaskSettle(l, o)
  \/ Tick

RunSpec == InitRun /\ [][RunNext]_vars

\* ---------------------------------- the two batch loops and their pauses
\* a call of filterRelevantMessagesLLM or of evaluateBatch is about to be made
InitPause == InitFilter \/ InitEval

PauseNext ==
  \/ FilterStart
  \/ FilterResume
  \/ FilterCooldownEnd
  \/ EvalStart
  \/ EvalResume
  \/ EvalCooldownEnd
  \/ \E l \in LoopIds : TimerFire(l)
  \/ \E l \in LoopIds,
        o \in (IF flt.pc # "off" THEN FilterOutcomes(Len(FilterBatch))
               ELSE EvalOutcomes(evl.i, Len(EvalBatch))) : TaskSettle(l, o)
  \/ Tick

PauseSpec == InitPause /\ [][PauseNext]_vars

\* the two loops under the scheduling the event loop provides: time
\* advances, a due timer fires, every started request eventually settles
\* and every continuation that is ready runs
PauseFairSpec ==
  /\ PauseSpec
  /\ WF_vars(Tick)
  /\ WF_vars(\E l \in LoopIds : TimerFire(l))
  /\ WF_vars(\E l \in LoopIds,
                o \in (IF flt.pc # "off" THEN FilterOutcomes(Len(FilterBatch))
                       ELSE EvalOutcomes(evl.i, Len(EvalBatch))) : TaskSettle(l, o))
  /\ WF_vars(FilterStart \/ FilterResume \/ FilterCooldownEnd)
  /\ WF_vars(EvalStart \/ EvalResume \/ EvalCooldownEnd)

\* ------------------------------------- parseChatLogs on a whole export
\* String(n): the decimal digits of a natural number
RECURSIVE Digits(_)
Digits(n) ==
  IF n < 10 THEN <<n>> ELSE Append(Digits(n \div 10), n % 10)

\* `conv_${actualConvIdx}_msg_${messages.length}`
\* (variant: the id names the conversation only)
MessageIdOfConversation(actualConvIdx, count) ==
  <<"conv_">> \o Digits(actualConvIdx)
MessageId(actualConvIdx, count) ==
  <<"conv_">> \o Digits(actualConvIdx) \o <<"_msg_">> \o Digits(count)

\* the body of Object.values(mapping).forEach for one node: messages after it
ParseNode(node, actualConvIdx, options, messages) ==
  IF ~node.message \/ node.role # "user" THEN messages
  ELSE IF options.afterTimestamp # 0 /\ node.create_time <= options.afterTimestamp
  THEN messages
  ELSE LET text == Trim(node.parts)
       IN IF text = <<>> THEN messages
          ELSE Append(messages,
                 [id |-> MessageId(actualConvIdx, Len(messages)),
                  text |-> text, timestamp |-> node.create_time,
                  conversationId |-> actualConvIdx])

RECURSIVE ParseMapping(_, _, _, _, _)
ParseMapping(mapping, j, actualConvIdx, options, messages) ==
  IF j > Len(mapping) THEN messages
  ELSE ParseMapping(mapping, j + 1, actualConvIdx, options,
                    ParseNode(mapping[j], actualConvIdx, options, messages))

\* selectedLogs.forEach((conversation, convIdx) => ...), convIdx from 0
RECURSIVE ParseSelected(_, _, _, _, _)
ParseSelected(selectedLogs, convIdx, startIdx, options, messages) ==
  IF convIdx >= Len(selectedLogs) THEN messages
  ELSE ParseSelected(selectedLogs, convIdx + 1, startIdx, options,
                     ParseMapping(selectedLogs[convIdx + 1], 1, startIdx + convIdx,
                                  options, messages))

\* parseChatLogs(jsonData, options); an option that is 0 is not given
ParseExport(logs, options) ==
  LET startIdx == IF options.startConversation # 0
                  THEN options.startConversation - 1 ELSE 0
      endIdx == IF options.endConversation # 0
                THEN options.endConversation ELSE Len(logs)
      selectedLogs == Slice(logs, startIdx, endIdx)
  IN ParseSelected(selectedLogs, 0, startIdx, options, <<>>)

\* the nodes of a mapping: a user message written at time 1 or 2, a user
\* message of whitespace only, an assistant's message, a node without message
UserNode(t) == [message |-> TRUE, role |-> "user", create_time |-> t,
                parts |-> <<"w", " ", "w">>]
NodeKinds ==
  {UserNode(1), UserNode(2),
   [UserNode(2) EXCEPT !.parts = <<" ">>],
   [UserNode(1) EXCEPT !.role = "assistant"],
   [UserNode(0) EXCEPT !.message = FALSE]}
\* a conversation of eleven user messages
LongConversation == [k \in 1..11 |-> UserNode(2)]
Exports ==
  ListsUpTo(ListsUpTo(NodeKinds, MaxNodes), MaxConversations)
    \cup {<<LongConversation>>, <<<<UserNode(1)>>, LongConversation>>}

\* an export has been read and a range chosen
InitPrs ==
  /\ InitScheduler(MaxClock, 0)
  /\ \E logs \in Exports, first \in 0..MaxConversations,
        last \in 0..MaxConversations, after \in {0, 1} :
       /\ first <= last \/ last = 0
       /\ prs = [pc |-> "init", logs |-> logs,
                 options |-> [startConversation |-> first,
                              endConversation |-> last,
                              afterTimestamp |-> after],
                 messages |-> <<>>]
  /\ OnlyCalls({"prs"})

PrsParse ==
  /\ prs.pc = "init"
  /\ prs' = [prs EXCEPT !.pc = "done",
                         !.messages = ParseExport(prs.logs, prs.options)]
  /\ UNCHANGED schedVars
  /\ UNCHANGED exceptPrs

PrsNext == PrsParse

PrsSpec == InitPrs /\ [][PrsNext]_vars

\* ------------------------- PracticeSessionComponent.handleSubmit, App.gradeSession
\* currentSession.questions.filter(q => !answers[q.question_id]?.trim())
Unanswered(questions, answers) ==
  {k \in 1..Len(questions) :
     ~answers[questions[k].question_id].given
       \/ answers[questions[k].question_id].words = <<>>}

\* results.filter(r => r.correct).length
CorrectCount(results) ==
  Cardinality({k \in 1..Len(results) : results[k].correct})

\* `const score = correctCount / results.length`
Score(results) == Ratio(CorrectCount(results), Len(results))

NoScore == Ratio(0, 1)

\* `{}` as the answers of a session: no question has one
NoAnswers(questions) == [k \in 1..Len(questions) |-> NotGiven]

\* The record ses holds the practice sessions App keeps (the first one in
\* the fields questions .. completed, the second one in the field other)
\* and the state of PracticeSessionComponent: activeSession, answers,
\* showResults, grading; pc is what the component did last ("grading":
\* handleSubmit awaits gradePracticeSession), submitted the session that
\* handleSubmit's closure holds, wakeAt when its setTimeout is due, edits
\* the answers typed so far.
\* sessions[k]
StoredSession(s, k) ==
  IF k = 1
  THEN [questions |-> s.questions, user_answers |-> s.user_answers,
        grading_results |-> s.grading_results, score |-> s.score,
        completed |-> s.completed]
  ELSE s.other
\* `const currentSession = sessions[activeSession]`
CurrentSession(s) == StoredSession(s, s.activeSession)

\* App.updateSession(sessionId, answers)
UpdateSession(s, k, answers) ==
  IF k = 1 THEN [s EXCEPT !.user_answers = answers]
  ELSE [s EXCEPT !.other.user_answers = answers]

\* App.gradeSession(sessionId, results, score)
GradeSession(s, k, results, score) ==
  IF k = 1
  THEN [s EXCEPT !.grading_results = results, !.score = score,
                 !.completed = TRUE]
  ELSE [s EXCEPT !.other.grading_results = results, !.other.score = score,
                 !.other.completed = TRUE]

\* the effect on [activeSession, currentSession]: it runs after every
\* render in which either changed and overwrites what the handler set
UseEffect(s) ==
  [s EXCEPT !.answers = CurrentSession(s).user_answers,
            !.showResults = CurrentSession(s).completed]

\* what the user may type as the answer to question q: the correct answer,
\* or nothing (the field cleared)
TypedValues(q) == {Given(q.correct_answer), Given(<<>>)}

\* the second session: one multiple choice question, not yet answered
OtherSession ==
  [questions |-> <<[question_id |-> 1] @@ Question("multiple_choice", LetterB)>>,
   user_answers |-> <<NotGiven>>, grading_results |-> <<>>,
   score |-> NoScore, completed |-> FALSE]

\* the questions and answers of the first session: corrections left
\* blank, answered word for word or with a quarter of the words missing,
\* and multiple choice questions answered with one letter
SessionKinds ==
  {e \in Answered :
     /\ e.q.question_format \in {"correction", "multiple_choice"}
     /\ e.a.given => Len(e.a.words) \in {1, 15, 20}}

\* two practice sessions are open in the component, the first one active,
\* its questions those the generator returned (none, when the model
\* answered with an empty array) and its answers typed in; the client is
\* idle
InitSes ==
  /\ InitIdleScheduler(MaxClock, 2)
  /\ \E session \in ListsUpTo(SessionKinds, MaxQuestions) :
       ses = [pc |-> "open", asked |-> FALSE,
              questions |-> [k \in 1..Len(session) |->
                               [question_id |-> k] @@ session[k].q],
              user_answers |-> [k \in 1..Len(session) |-> session[k].a],
              grading_results |-> <<>>, score |-> NoScore, completed |-> FALSE,
              other |-> OtherSession,
              activeSession |-> 1,
              answers |-> [k \in 1..Len(session) |-> session[k].a],
              showResults |-> FALSE, grading |-> FALSE, wakeAt |-> 0,
              submitted |-> 0, edits |-> 0]
  /\ OnlyCalls({"ses"})

\* a user event is taken only when no synchronous code and no microtask
\* is left to run: during handleSubmit, while the model call is awaited
EventLoopIdle == ses.pc = "grading" => grd.pc = "await"

\* handleAnswerChange(questionId, value): the form is shown whenever the
\* results are not, and its fields are never disabled
SesAnswerChange ==
  /\ EventLoopIdle
  /\ ~ses.showResults
  /\ ses.edits < MaxEdits
  /\ \E k \in 1..Len(CurrentSession(ses).questions) :
       \E value \in TypedValues(CurrentSession(ses).questions[k]) :
         LET newAnswers == [ses.answers EXCEPT ![k] = value]
         IN /\ value # ses.answers[k]
            /\ ses' = UseEffect(UpdateSession(
                        [ses EXCEPT !.answers = newAnswers, !.edits = @ + 1],
                        ses.activeSession, newAnswers))
  /\ UNCHANGED schedVars
  /\ UNCHANGED exceptSes

\* a session tab is clicked: `if (!grading) setActiveSession(idx)`
SesSwitch ==
  /\ ~ses.grading
  /\ \E idx \in 1..2 :
       /\ idx # ses.activeSession
       /\ ses' = UseEffect([ses EXCEPT !.activeSession = idx, !.pc = "open"])
  /\ UNCHANGED schedVars
  /\ UNCHANGED exceptSes

\* handleSubmit up to `await api.gradePracticeSession(...)`; with blank
\* answers the user is asked first and may cancel
SesSubmit ==
  /\ ~ses.showResults
  /\ ~ses.grading
  /\ LET currentSession == CurrentSession(ses)
         unanswered == Unanswered(currentSession.questions, ses.answers)
     IN \E proceed \in BOOLEAN :
          IF unanswered # {} /\ ~proceed
          THEN /\ ses' = [ses EXCEPT !.asked = TRUE]
               /\ UNCHANGED grd
          ELSE /\ ses' = [ses EXCEPT !.pc = "grading", !.grading = TRUE,
                                     !.submitted = ses.activeSession,
                                     !.asked = unanswered # {}]
               /\ grd' = [pc |-> "init", questions |-> currentSession.questions,
                          userAnswers |-> ses.answers, results |-> <<>>,
                          needsLLM |-> <<>>, task |-> NoTask, response |-> Pending]
  /\ UNCHANGED <<flt, evl, san, heu, ana, gen, cmp, app, prs>>
  /\ UNCHANGED schedVars

\* gradePracticeSession has resolved: the score is computed, onGradeSession
\* (App.gradeSession) stores results and score, the results are shown and
\* the finally block sets its timer
SesGraded ==
  /\ ses.pc = "grading"
  /\ grd.pc = "done"
  /\ ses' = UseEffect(GradeSession(
              [ses EXCEPT !.pc = "graded", !.showResults = TRUE,
                          !.wakeAt = clock + GRADING_LINGER],
              ses.submitted, grd.results, Score(grd.results)))
  /\ UNCHANGED schedVars
  /\ UNCHANGED exceptSes

\* the timer of the finally block fires: `setGrading(false)`
SesGradingEnds ==
  /\ ses.pc # "grading"
  /\ ses.grading
  /\ clock >= ses.wakeAt
  /\ ses' = [ses EXCEPT !.grading = FALSE]
  /\ UNCHANGED schedVars
  /\ UNCHANGED exceptSes

\* resetSession: the button stands next to the results and is disabled
\* while grading; the user confirms or not
SesReset ==
  /\ ses.showResults
  /\ ~ses.grading
  /\ \E proceed \in BOOLEAN :
       IF proceed
       THEN LET none == NoAnswers(CurrentSession(ses).questions)
            IN ses' = UseEffect(UpdateSession(
                        [ses EXCEPT !.pc = "reset", !.answers = none,
                                    !.showResults = FALSE],
                        ses.activeSession, none))
       ELSE ses' = ses
  /\ UNCHANGED schedVars
  /\ UNCHANGED exceptSes

SesNext ==
  \/ SesAnswerChange
  \/ SesSwitch
  \/ SesSubmit
  \/ GrdStart
  \/ GrdResume
  \/ SesGraded
  \/ SesGradingEnds
  \/ SesReset
  \/ \E l \in LoopIds : TimerFire(l)
  \/ \E l \in LoopIds,
        o \in (IF grd.pc = "off" THEN {} ELSE GrdOutcomes(Len(grd.needsLLM))) :
       TaskSettle(l, o)
  \/ Tick

SesSpec == InitSes /\ [][SesNext]_vars

Next ==
  \/ QueueRequest
  \/ \E l \in LoopIds : TimerFire(l)
  \/ \E l \in LoopIds, o \in TaskOutcomes : TaskSettle(l, o)
  \/ Tick

Spec == Init /\ [][Next]_vars

\* The scheduler under the scheduling the event loop provides: time advances,
\* a due timer fires, and every started request eventually settles.
FairSpec ==
  /\ Spec
  /\ WF_vars(Tick)
  /\ WF_vars(\E l \in LoopIds : TimerFire(l))
  /\ WF_vars(\E l \in LoopIds, o \in TaskOutcomes : TaskSettle(l, o))

\* ============================================================ properties
RunningTasks == {t \in DOMAIN tasks : tasks[t].state = "running"}

\* C1: every outbound model call belongs to the scheduler task that is
\* executing, and at most one scheduler task executes at any instant.
C1_OneCallAtATime ==
  /\ Cardinality(RunningTasks) <= 1
  /\ inflight \subseteq RunningTasks
  /\ Cardinality(inflight) <= 1

\* a call is in flight while two later callers are queued behind it
C1_Witness ==
  /\ inflight # {}
  /\ Len(requestQueue) = 2

\* C2: evaluateBatch emits one record per input message, in input order,
\* and record k carries message k's id and text whatever the model returned.
C2_IdentityPreserved ==
  evl.pc # "off" =>
    /\ Len(evl.allResults) <= Len(evl.messages)
    /\ evl.pc = "done" => Len(evl.allResults) = Len(evl.messages)
    /\ evl.pc \in {"await", "cooldown"} =>
         Len(evl.allResults) = IF evl.pc = "await" THEN evl.i
                               ELSE evl.i + EVAL_BATCH_SIZE
    /\ \A k \in 1..Len(evl.allResults) :
         /\ evl.allResults[k].message_id = evl.messages[k].id
         /\ evl.allResults[k].text = evl.messages[k].text

\* six messages were evaluated in two batches; the first answer came back
\* reversed (record 1 carries the scores the model gave message 5), the
\* second named an id and a text of no input message
C2_Witness ==
  /\ evl.pc = "done"
  /\ Len(evl.messages) = 6
  /\ Len(evl.allResults) = 6
  /\ evl.allResults[1].grammar_score = ValidEntry(5).grammar_score
  /\ evl.allResults[1].grammar_score # ValidEntry(1).grammar_score
  /\ evl.response.ok /\ evl.response.body.arr = <<WildEntry>>
  /\ evl.allResults[6].grammar_score = 9

\* C3: the start times of two consecutively executed tasks differ by at
\* least MIN_REQUEST_INTERVAL, whatever the tasks' durations and outcomes.
C3_MinSpacing ==
  \A i \in 1..(Len(startLog) - 1) :
    startLog[i + 1].at - startLog[i].at >= MIN_REQUEST_INTERVAL

\* three tasks have started, the first one rejected and the second one ran
\* for longer than the interval
C3_Witness ==
  /\ Len(startLog) = 3
  /\ ~tasks[1].outcome.ok
  /\ startLog[3].at - startLog[2].at > MIN_REQUEST_INTERVAL

\* C4: tasks start in the order of their queueRequest calls (ids are given
\* in call order).
C4_Fifo ==
  \A i \in 1..Len(startLog) : startLog[i].task = i

\* all tasks have started, and the third was enqueued while the second was
\* still waiting in the queue
C4_Witness ==
  /\ Len(startLog) = MaxTasks
  /\ tasks[3].enqAt < startLog[2].at

\* C5: a promise is settled exactly once, when its own task settles, and with
\* its own task's result or error; it is pending until then.
C5_OwnOutcome ==
  \A t \in DOMAIN tasks :
    IF tasks[t].state = "settled"
    THEN /\ tasks[t].settles = 1
         /\ tasks[t].delivered = tasks[t].outcome
         /\ tasks[t].promise = IF tasks[t].outcome.ok
                                THEN "resolved" ELSE "rejected"
    ELSE /\ tasks[t].settles = 0
         /\ tasks[t].promise = "pending"

\* one task has rejected while the next one resolved and a third is still
\* pending
C5_Witness ==
  /\ tasks[1].promise = "rejected" /\ ~tasks[1].delivered.ok
  /\ tasks[2].promise = "resolved" /\ tasks[2].delivered.ok
  /\ tasks[3].state = "queued"

\* C6: under FairSpec every enqueued task is eventually started and its
\* promise settled, and a non-empty queue is eventually drained.
C6_Drains ==
  /\ \A t \in 1..MaxTasks : (tasks[t].state = "queued") ~> (tasks[t].promise # "pending")
  /\ (Len(requestQueue) > 0) ~> (Len(requestQueue) = 0)

\* a later task has settled although the two before it rejected
C6_Witness ==
  /\ tasks[1].promise = "rejected"
  /\ tasks[2].promise = "rejected"
  /\ tasks[3].state = "settled"
  /\ Len(requestQueue) = 0

\* this step is a queueRequest call made while the queue is empty and no
\* task is running
EnqueueOnIdle ==
  /\ nextTask' = nextTask + 1
  /\ Len(requestQueue) = 0
  /\ RunningTasks = {}

\* C7 as stated: such a call starts its task immediately.
C7_Original ==
  [][EnqueueOnIdle => tasks'[nextTask].state = "running"]_vars

\* C7 amended: such a call starts its task immediately exactly when
\* MIN_REQUEST_INTERVAL has elapsed since the previous task finished;
\* otherwise the task stays queued until that interval has elapsed.
C7_Amended ==
  [][EnqueueOnIdle =>
       IF clock - lastRequestTime >= MIN_REQUEST_INTERVAL
       THEN /\ tasks'[nextTask].state = "running"
            /\ startLog'[Len(startLog')] = [task |-> nextTask, at |-> clock]
       ELSE /\ tasks'[nextTask].state = "queued"
            /\ \E l \in LoopIds :
                 /\ loops'[l].pc = "sleep"
                 /\ loops'[l].wakeAt = lastRequestTime + MIN_REQUEST_INTERVAL
    ]_vars

\* the second task was enqueued on an idle scheduler and started at once,
\* the third was enqueued on an idle scheduler and had to wait
C7_Witness ==
  /\ Len(startLog) = 3
  /\ tasks[1].state = "settled"
  /\ tasks[2].state = "settled"
  /\ startLog[2].at = tasks[2].enqAt
  /\ startLog[2].at > startLog[1].at
  /\ startLog[3].at > tasks[3].enqAt
  /\ tasks[3].enqAt >= lastRequestTime

\* ------------------------------------------------ relevance confirmation
\* this step is the continuation of filterRelevantMessagesLLM after the
\* model call of the current batch has settled
FilterResumes ==
  /\ flt.pc = "await"
  /\ tasks[flt.task].state = "settled"
  /\ flt' # flt

\* the outcome that step receives
FilterOutcome == tasks[flt.task].delivered

ParseFails(o) == o.ok /\ o.body.kind = "unparseable"
LengthDiffers(o, b) == o.ok /\ o.body.kind = "array" /\ Len(o.body.arr) # b
BooleanArray(o, b) ==
  /\ o.ok /\ o.body.kind = "array" /\ Len(o.body.arr) = b
  /\ \A j \in 1..b : o.body.arr[j] \in {"true", "false"}
WrongShape(o, b) ==
  /\ o.ok /\ o.body.kind = "array" /\ Len(o.body.arr) = b
  /\ \E j \in 1..b : o.body.arr[j] \notin {"true", "false"}

\* C8: when the batch's response fails to parse, parses to an array of
\* another length than the batch, or the call rejects, every message of the
\* batch is kept.
C8_FailOpen ==
  [][FilterResumes /\ (\/ ~FilterOutcome.ok
                       \/ ParseFails(FilterOutcome)
                       \/ LengthDiffers(FilterOutcome, Len(FilterBatch)))
       => flt'.relevant = flt.relevant \o FilterBatch]_vars

\* the second batch of two got an array of one entry and was kept whole,
\* after a first batch that was answered [false, false]
C8_Witness ==
  /\ flt.pc = "done"
  /\ Len(flt.messages) = 4 /\ flt.batchSize = 2
  /\ flt.response.ok /\ flt.response.body.kind = "array"
  /\ flt.response.body.arr = <<"false">>
  /\ flt.relevant = <<Msg(3), Msg(4)>>

\* C9 as stated: a response of the wrong shape (an array of the batch's
\* length with an entry that is not a boolean) is treated like a transport
\* error, every message of the batch being kept.
C9_ShapeFailOpen ==
  [][FilterResumes /\ (\/ ~FilterOutcome.ok
                       \/ ParseFails(FilterOutcome)
                       \/ LengthDiffers(FilterOutcome, Len(FilterBatch))
                       \/ WrongShape(FilterOutcome, Len(FilterBatch)))
       => flt'.relevant = flt.relevant \o FilterBatch]_vars

\* the elements of batch at the positions in S, in increasing position
PickAt(batch, S) ==
  [k \in 1..Cardinality(S) |->
     batch[CHOOSE j \in S : Cardinality({x \in S : x <= j}) = k]]

\* C10: a boolean array of the batch's length keeps exactly the messages whose
\* entry is true, appended after the earlier batches' messages; the result
\* is always a duplicate-free subsequence of the input in input order.
C10_KeepsTrueOnes ==
  /\ [][FilterResumes /\ BooleanArray(FilterOutcome, Len(FilterBatch))
          => flt'.relevant =
               flt.relevant \o
               PickAt(FilterBatch, {j \in 1..Len(FilterBatch) :
                                      FilterOutcome.body.arr[j] = "true"})]_vars
  /\ [](flt.pc # "off" =>
          /\ \A j \in 1..Len(flt.relevant) :
               /\ flt.relevant[j].id \in 1..Len(flt.messages)
               /\ flt.relevant[j] = flt.messages[flt.relevant[j].id]
          /\ \A j, k \in 1..Len(flt.relevant) :
               j < k => flt.relevant[j].id < flt.relevant[k].id)

\* three batches answered [false, true], [true, false] and [true]
C10_Witness ==
  /\ flt.pc = "done"
  /\ Len(flt.messages) = 5 /\ flt.batchSize = 2
  /\ flt.response.ok /\ flt.response.body.arr = <<"true">>
  /\ flt.relevant = <<Msg(2), Msg(3), Msg(5)>>

\* a step in which evaluateBatch takes the outcome of its pending call
EvalResumes ==
  /\ evl.pc = "await"
  /\ tasks[evl.task].state = "settled"
  /\ evl' # evl

\* the call rejected, or what it returned does not parse to an array
EvalBatchFailed ==
  LET o == tasks[evl.task].delivered
  IN ~o.ok \/ o.body.kind \in {"unparseable", "nonarray"}

\* r is the placeholder record of message m
IsPlaceholderOf(m, r) ==
  /\ r.message_id = m.id
  /\ r.text = m.text
  /\ r.grammar_score = 3 /\ r.punctuation_score = 3 /\ r.tone_score = 3
  /\ Len(r.grammar_issues) = 1
  /\ r.punctuation_issues = <<>>
  /\ r.tone_issues = <<>>

\* C11: when a batch's model call rejects or its response does not parse to
\* an array, evaluateBatch appends exactly one placeholder record for each
\* message of that batch (id and text kept, the three scores 3, one grammar
\* issue, no punctuation or tone issue); the records of the batches before
\* stay as they were, whatever happens to a batch.
C11_FailedBatchPlaceholders ==
  [][EvalResumes =>
       LET old  == evl.allResults
           new  == evl'.allResults
           size == Min(EVAL_BATCH_SIZE, Len(evl.messages) - evl.i)
       IN /\ Len(new) >= Len(old)
          /\ \A k \in 1..Len(old) : new[k] = old[k]
          /\ EvalBatchFailed =>
                /\ Len(new) = Len(old) + size
                /\ \A j \in 1..size :
                     IsPlaceholderOf(evl.messages[evl.i + j], new[Len(old) + j])
     ]_vars

\* twenty-one messages: the second batch failed and left placeholders for
\* messages 6..10, between the first and the third batch whose records carry
\* the scores the model gave
C11_Witness ==
  /\ evl.pc = "done"
  /\ Len(evl.messages) = LongRun
  /\ \A k \in 6..10 : IsPlaceholderOf(evl.messages[k], evl.allResults[k])
  /\ evl.allResults[5].grammar_score = ValidEntry(1).grammar_score
  /\ evl.allResults[5].grammar_issues = <<"tense inconsistency">>
  /\ evl.allResults[11].grammar_score = ValidEntry(15).grammar_score
  /\ evl.allResults[11].tone_issues = <<"too casual">>

\* C12: for any JSON value V, stringify(V) wrapped in a code fence with
\* prose before and after it comes out of cleanJSONResponse as a text that
\* parses back to V.
C12_RoundTrip ==
  (san.pc = "done" /\ san.wrapped) => ParsesTo(san.cleaned, san.value)

\* the text s holds the character c / the run of characters pat
HasChar(s, c) == \E q \in 1..Len(s) : s[q] = c
HasRun(s, pat) == \E q \in 1..Len(s) : StartsWithAt(s, q, pat)
NoJsonStart == ~HasChar(san.raw, "[") /\ ~HasChar(san.raw, "{")

\* C13 as stated: a response with neither '[' nor '{' comes back as the
\* trimmed original string, unchanged.
C13_Original ==
  (san.pc = "done" /\ NoJsonStart) => san.cleaned = Trim(san.raw)

\* C13: a response with neither '[' nor '{' comes back trimmed and without
\* its fence markers (three backticks, an optional json tag, and the
\* whitespace after them); without any fence marker it is the trimmed
\* original string, unchanged.
C13_Amended ==
  (san.pc = "done" /\ NoJsonStart) =>
    /\ san.cleaned = StripFences(Trim(san.raw))
    /\ ~HasRun(san.raw, Fence) => san.cleaned = Trim(san.raw)

\* a fenced word without any bracket came back as the bare word
C13_Witness ==
  /\ san.pc = "done"
  /\ san.raw = <<" ">> \o Fence \o <<"a", " ">>
  /\ san.cleaned = <<"a">>

\* the number of whitespace-separated words of a text
WordsOf(text) ==
  Cardinality({q \in 1..Len(text) :
                 ~IsSpace(text[q]) /\ (q = 1 \/ IsSpace(text[q - 1]))})
IsFilteredIn(m) == \E j \in 1..Len(heu.filtered) : heu.filtered[j] = m

\* C14: filterMessagesHeuristic rejects every message of fewer than 10
\* whitespace-separated words, also one that holds a writing keyword.
C14_ShortRejected ==
  heu.pc = "done" =>
    \A k \in 1..Len(heu.messages) :
      WordsOf(heu.messages[k].text) < 10 => ~IsFilteredIn(heu.messages[k])

\* of two messages holding a writing keyword, the one of nine words was
\* rejected and the one of ten words was kept
C14_Witness ==
  /\ heu.pc = "done"
  /\ Len(heu.messages) = 2
  /\ WordsOf(heu.messages[1].text) = 10
  /\ IncludesSome(heu.messages[1].text, {"Essay"})
  /\ heu.messages[2].text = ShortEssay
  /\ heu.filtered = <<heu.messages[1]>>

\* the numbers a and b are equal (both are fractions; 0 / 0 equals nothing)
SameNumber(a, b) == a.n # 0 /\ b.n # 0 /\ a.sum * b.n = b.sum * a.n
\* the sum of a field over the records, and so their arithmetic mean
Total(records, field) ==
  LET RECURSIVE Upto(_)
      Upto(k) == IF k = 0 THEN 0 ELSE records[k][field] + Upto(k - 1)
  IN Upto(Len(records))
MeanOf(records, field) == [sum |-> Total(records, field), n |-> Len(records)]

\* C15: for every non-empty record list and every model outcome, the three
\* averages of the Analysis that analyzePatterns returns are the arithmetic
\* means of the input records' scores.
C15_LocalAverages ==
  (ana.pc = "done" /\ Len(ana.evaluations) > 0) =>
    /\ ana.result.summary.some
    /\ \A f \in {"grammar_score", "punctuation_score", "tone_score"} :
         SameNumber(ana.result.summary["avg_" \o f], MeanOf(ana.evaluations, f))

TopLists ==
  <<ana.result.top_grammar_issues, ana.result.top_punctuation_issues,
    ana.result.top_tone_issues>>

\* C16: whatever the records and whatever the model answered, each of the
\* three issue lists of the Analysis that analyzePatterns returns has at
\* least 1 and at most 5 entries.
C16_OneToFiveIssues ==
  ana.pc = "done" =>
    \A d \in 1..3 : Len(TopLists[d]) >= 1 /\ Len(TopLists[d]) <= 5

\* the model named seven grammar issues, of which five were kept, and no
\* tone issue, for which the records' own three spellings of one issue
\* were grouped into one entry
C16_Witness ==
  /\ ana.pc = "done"
  /\ ana.response.ok /\ ana.response.body.kind = "object"
  /\ Len(ana.response.body.obj.top_grammar_issues.val) = 7
  /\ Len(ana.result.top_grammar_issues) = 5
  /\ ana.result.top_grammar_issues[5] = ModelIssue(5)
  /\ ana.response.body.obj.top_tone_issues = ArrayList(<<>>)
  /\ Len(ana.result.top_tone_issues) = 1
  /\ ana.result.top_tone_issues[1].issue = <<"too", " ", "casual">>
  /\ ana.result.top_tone_issues[1].frequency = 3

\* a step in which analyzePatterns takes the outcome of its call
AnaResumes ==
  /\ ana.pc = "await"
  /\ tasks[ana.task].state = "settled"
  /\ ana' # ana
AnaCallFailed ==
  LET o == tasks[ana.task].delivered
  IN ~o.ok \/ o.body.kind = "unparseable"

GenResumes ==
  /\ gen.pc = "await"
  /\ tasks[gen.task].state = "settled"
  /\ gen' # gen
GenCallFailed ==
  LET o == tasks[gen.task].delivered
  IN ~o.ok \/ o.body.kind \in {"unparseable", "nonarray"}

\* C18: when the generation call rejects or its response is not a JSON
\* array, generatePracticeQuestions resolves with 2 * min(3, n) questions:
\* for each of the first min(3, n) issues, in their order, one correction
\* question and then one multiple_choice question on that issue.
C18_TemplatedQuestions ==
  [][(GenResumes /\ GenCallFailed) =>
       LET qs == gen'.questions
           m  == IF Len(gen.issues) < 3 THEN Len(gen.issues) ELSE 3
       IN /\ gen'.pc = "done"
          /\ Len(qs) = 2 * m
          /\ \A k \in 1..m :
               /\ qs[2 * k - 1].question_format = "correction"
               /\ qs[2 * k - 1].specific_issue = gen.issues[k].issue
               /\ qs[2 * k].question_format = "multiple_choice"
               /\ qs[2 * k].specific_issue = gen.issues[k].issue
     ]_vars

\* four issues were passed and the model's answer was no array: six
\* questions came back, the last two on the third issue
C18_Witness ==
  /\ gen.pc = "done"
  /\ Len(gen.issues) = 4
  /\ gen.issues[3].issue = <<"tense">>
  /\ gen.issues[4] = GenericIssue("tone")
  /\ gen.response.ok /\ gen.response.body.kind = "nonarray"
  /\ Len(gen.questions) = 6
  /\ gen.questions[5].question_format = "correction"
  /\ gen.questions[6].question_format = "multiple_choice"
  /\ gen.questions[6].specific_issue = <<"tense">>

\* the words of a text, case and punctuation apart
PlainWords(text) == {text[q].w : q \in 1..Len(text)}
\* the share of common words among all words of two texts is above 90%
VerySimilar(a, b) ==
  /\ PlainWords(a) \cup PlainWords(b) # {}
  /\ 100 * Cardinality(PlainWords(a) \cap PlainWords(b))
       > 90 * Cardinality(PlainWords(a) \cup PlainWords(b))
\* question k is one the first pass settles: no answer, a multiple choice,
\* or a correction / writing prompt answered almost in the expected words
SettledLocally(k) ==
  LET q == grd.questions[k]
      a == grd.userAnswers[q.question_id]
  IN \/ ~a.given \/ a.words = <<>>
     \/ q.question_format = "multiple_choice"
     \/ /\ q.question_format \in {"correction", "writing_prompt"}
        /\ VerySimilar(a.words, q.correct_answer)
AllSettledLocally == \A k \in 1..Len(grd.questions) : SettledLocally(k)

\* C19: gradePracticeSession makes at most one model call; when every
\* question is settled locally (no answer, multiple choice, or an answer
\* whose similarity is above the threshold, which is marked correct by the
\* similarity method) it makes none and the queue stays empty.
C19_AtMostOneCall ==
  grd.pc # "off" =>
    /\ nextTask <= 2
    /\ Len(requestQueue) <= 1
    /\ AllSettledLocally =>
         /\ nextTask = 1
         /\ requestQueue = <<>>
         /\ grd.pc \in {"init", "done"}
         /\ grd.pc = "done" =>
              /\ Len(grd.results) = Len(grd.questions)
              /\ \A k \in 1..Len(grd.results) :
                   /\ grd.results[k].grading_method # "llm"
                   /\ (LET q == grd.questions[k]
                        IN /\ q.question_format \in {"correction", "writing_prompt"}
                           /\ VerySimilar(grd.userAnswers[k].words, q.correct_answer))
                      => /\ grd.results[k].correct
                         /\ grd.results[k].grading_method = "similarity"

\* a writing prompt answered with 19 of the 20 expected words (similarity
\* 0.95) and a multiple choice were graded without any call
C19_Witness ==
  /\ grd.pc = "done"
  /\ Len(grd.questions) = 2
  /\ grd.questions[1].question_format = "writing_prompt"
  /\ grd.userAnswers[1] = Given(Sentence(19))
  /\ grd.questions[2].question_format = "multiple_choice"
  /\ grd.results[1].grading_method = "similarity" /\ grd.results[1].correct
  /\ grd.results[2].grading_method = "programmatic"
  /\ nextTask = 1

\* a step in which gradePracticeSession takes the outcome of its call
GrdResumes ==
  /\ grd.pc = "await"
  /\ tasks[grd.task].state = "settled"
  /\ grd' # grd
GrdCallFailed ==
  LET o == tasks[grd.task].delivered
  IN ~o.ok \/ o.body.kind = "unparseable"
IsDeferred(k) == \E i \in 1..Len(grd.needsLLM) : grd.needsLLM[i] = k

\* C20: when the grading call rejects or its response cannot be parsed,
\* gradePracticeSession resolves; every deferred question gets correct =
\* false, the 'Unable to grade automatically' feedback and the method
\* 'llm', and every other question keeps the result of the first pass.
C20_GradingFallback ==
  [][(GrdResumes /\ GrdCallFailed) =>
       /\ grd'.pc = "done"
       /\ Len(grd'.results) = Len(grd.questions)
       /\ \A k \in 1..Len(grd.questions) :
            LET r == grd'.results[k]
            IN /\ r.question = k
               /\ IF IsDeferred(k)
                  THEN /\ r.correct = FALSE
                       /\ r.grading_method = "llm"
                       /\ r.feedback =
                            "Unable to grade automatically. Please review the correct answer."
                  ELSE \E j \in 1..Len(grd.results) : grd.results[j] = r
     ]_vars

\* the first question was deferred and the call failed; the second, a
\* correct multiple choice, kept its result
C20_Witness ==
  /\ grd.pc = "done"
  /\ ~grd.response.ok
  /\ grd.needsLLM = <<1>>
  /\ Len(grd.results) = 2
  /\ grd.results[1].grading_method = "llm" /\ ~grd.results[1].correct
  /\ grd.results[2].grading_method = "programmatic" /\ grd.results[2].correct

\* C21: gradePracticeSession returns one result per question, the k-th
\* result being that of question k, whichever pass graded each question
\* and whether the model call succeeded, failed or returned too few grades.
C21_OnePerQuestionSorted ==
  grd.pc = "done" =>
    /\ Len(grd.results) = Len(grd.questions)
    /\ \A k \in 1..Len(grd.results) : grd.results[k].question = k

\* the first question was deferred and the second graded locally; the
\* model answered with an array that has no grade for the first
C21_Witness ==
  /\ grd.pc = "done"
  /\ Len(grd.questions) = 2
  /\ grd.needsLLM = <<1>>
  /\ grd.response.ok
  /\ grd.response.body.kind = "array"
  /\ grd.response.body.arr = <<>>
  /\ grd.results[1].grading_method = "llm"
  /\ grd.results[1].feedback = "Unable to grade"
  /\ grd.results[2].grading_method = "programmatic"

\* an issue name with the case of its letters put aside
Fold(name) ==
  [q \in 1..Len(name) |->
     IF name[q] \in {"Tense", "tense"} THEN "tense"
     ELSE IF name[q] \in {"Casual", "casual"} THEN "casual"
     ELSE name[q]]
ListedIn(analysis) ==
  LET all == analysis.top_grammar_issues \o analysis.top_punctuation_issues
               \o analysis.top_tone_issues
  IN {all[k] : k \in 1..Len(all)}
FoldedNames(issues) == {Fold(i.issue) : i \in issues}
Elements(list) == {list[k] : k \in 1..Len(list)}

\* C22: in the comparison, resolved holds the baseline issues whose name
\* (case put aside) the followup does not list, persistent the issues whose
\* name both list, and newIssues the followup issues whose name the
\* baseline does not list.
C22_IssueComparison ==
  cmp.pc = "done" =>
    LET B == ListedIn(cmp.baselineAnalysis)
        F == ListedIn(cmp.followupAnalysis)
        ic == cmp.result.issueComparison
    IN /\ Elements(ic.resolved) = {i \in B : Fold(i.issue) \notin FoldedNames(F)}
       /\ Elements(ic.newIssues) = {i \in F : Fold(i.issue) \notin FoldedNames(B)}
       /\ Elements(ic.persistent) \subseteq B \cup F
       /\ FoldedNames(Elements(ic.persistent)) = FoldedNames(B) \cap FoldedNames(F)

\* baseline {Tense, comma splice, too Casual}, followup {run-on, too casual}:
\* two resolved, 'too casual' persistent, 'run-on' new
C22_Witness ==
  /\ cmp.pc = "done"
  /\ FoldedNames(ListedIn(cmp.baselineAnalysis))
       = {<<"tense">>, <<"comma", " ", "splice">>, <<"too", " ", "casual">>}
  /\ FoldedNames(ListedIn(cmp.followupAnalysis))
       = {<<"run-on">>, <<"too", " ", "casual">>}
  /\ Len(cmp.result.issueComparison.resolved) = 2
  /\ Len(cmp.result.issueComparison.persistent) = 1
  /\ cmp.result.issueComparison.persistent[1].issue = <<"too", " ", "casual">>
  /\ Len(cmp.result.issueComparison.newIssues) = 1
  /\ cmp.result.issueComparison.newIssues[1].issue = <<"run-on">>

\* C23: generateComparisonAnalysis yields no infinite and no NaN
\* changePercent, for any dimension.
C23_FiniteChangePercent ==
  cmp.pc = "done" =>
    \A d \in {"grammar", "punctuation", "tone"} :
      cmp.result.comparison[d].changePercent.n # 0

\* the run has passed its first test / its second test for survivors
PastHeuristic == app.pc \notin {"off", "init"}
PastConfirmation == app.pc \notin {"off", "init", "confirming"}
HeuristicLeavesNone ==
  FilterMessagesHeuristic(ParseChatLogs(app.parts, 1, <<>>), 1) = <<>>
ConfirmerConfirmsNone == flt.pc = "done" /\ flt.relevant = <<>>
NothingStored ==
  /\ ~app.hasFollowup /\ ~app.hasResult
  /\ app.handler = "handleEvaluation" => ~app.hasBaseline
StoppedAt(messages) ==
  /\ app.pc = "failed"
  /\ app.error \in messages
  /\ NothingStored
  /\ evl.pc = "off" /\ ana.pc = "off" /\ cmp.pc = "off"
  /\ requestQueue = <<>> /\ inflight = {}

\* C24: when the heuristic filter leaves no message, or the confirmer
\* confirms none, the run ends with the error of that stage, makes no
\* further model call and stores no analysis; evaluateBatch and
\* analyzePatterns are never called with an empty list.
C24_EmptyStageStops ==
  /\ [](/\ (PastHeuristic /\ HeuristicLeavesNone) =>
             /\ StoppedAt({"No writing-related messages found in selected range",
                           "No writing-related messages found in selected conversations"})
             /\ flt.pc = "off" /\ nextTask = 1
        /\ (PastConfirmation /\ ConfirmerConfirmsNone) =>
             StoppedAt({"No messages confirmed as writing-related by LLM",
                        "No messages confirmed as writing-related"})
        /\ evl.pc # "off" => Len(evl.messages) > 0
        /\ ana.pc # "off" => Len(ana.evaluations) > 0)
  /\ [][app.pc = "failed" => (nextTask' = nextTask /\ app' = app)]_vars

\* the model answered false for the only message the heuristic kept: the
\* run stopped after its one call
C24_Witness ==
  /\ app.pc = "failed"
  /\ app.error = "No messages confirmed as writing-related by LLM"
  /\ Len(app.limitedFiltered) = 1
  /\ flt.response.ok
  /\ nextTask = 2
  /\ evl.pc = "off"

\* the batch loop of call c (its message count n, its batch size b) ends
\* batch k = i / b + 1 of ceil(n / b) and pauses or not
PauseRule(c, n, b) ==
  LET k == (c.i \div b) + 1
      last == (n + b - 1) \div b
  IN (c.pc = "await" /\ c' # c) =>
       /\ (c'.pc = "cooldown") <=> (k % 4 = 0 /\ k # last)
       /\ c'.pc = "cooldown" =>
            /\ c'.wakeAt = clock + 60000
            /\ nextTask' = nextTask
            /\ requestQueue' = <<>>
\* while call c pauses nothing is enqueued, and the pause ends no earlier
\* than it is due
PauseHolds(c) ==
  c.pc = "cooldown" =>
    /\ c'.pc = "cooldown" => (nextTask' = nextTask /\ c'.wakeAt = c.wakeAt)
    /\ c'.pc # "cooldown" => clock >= c.wakeAt

\* C25: in filterRelevantMessagesLLM and in evaluateBatch the loop pauses
\* after batch k exactly when k is a multiple of 4 and not the last batch,
\* and the next batch's call is not enqueued before the pause is over.
C25_CooldownEveryFourth ==
  [][/\ flt.pc # "off" =>
          /\ PauseRule(flt, Len(flt.messages), flt.batchSize)
          /\ PauseHolds(flt)
     /\ evl.pc # "off" =>
          /\ PauseRule(evl, Len(evl.messages), 5)
          /\ PauseHolds(evl)]_vars

\* five messages confirmed one by one: the loop pauses after the fourth
C25_Witness ==
  /\ flt.pc = "cooldown"
  /\ Len(flt.messages) = 5 /\ flt.batchSize = 1
  /\ flt.i = 3
  /\ nextTask = 5
  /\ clock < flt.wakeAt

\* C26: the messages one parseChatLogs call returns have pairwise
\* distinct ids, whatever the export, the range and the timestamp filter.
C26_DistinctIds ==
  prs.pc = "done" =>
    \A i \in 1..Len(prs.messages), j \in 1..Len(prs.messages) :
      i # j => prs.messages[i].id # prs.messages[j].id

\* the second conversation alone was selected, with a timestamp filter:
\* eleven messages of one conversation, the last with a two-digit count
C26_Witness ==
  /\ prs.pc = "done"
  /\ prs.options.startConversation = 2
  /\ prs.options.afterTimestamp = 1
  /\ Len(prs.logs) = 2
  /\ Len(prs.messages) = 11
  /\ prs.messages[1].id = <<"conv_", 1, "_msg_", 0>>
  /\ prs.messages[11].id = <<"conv_", 1, "_msg_", 1, 0>>

\* C27: every record evaluateBatch has produced carries a grammar, a
\* punctuation and a tone score between 1 and 5, whatever the model returned.
C27_ScoresInRange ==
  evl.pc # "off" =>
    \A k \in 1..Len(evl.allResults) :
      /\ evl.allResults[k].grammar_score \in 1..5
      /\ evl.allResults[k].punctuation_score \in 1..5
      /\ evl.allResults[k].tone_score \in 1..5

\* C28: the score stored with a graded session is a fraction between 0
\* and 1: the number of correct results over the number of results.
C28_ScoreIsFraction ==
  ses.pc = "graded" =>
    /\ ses.score.n > 0
    /\ 0 <= ses.score.sum /\ ses.score.sum <= ses.score.n

\* the number of times task t was started
Starts(t) == Cardinality({k \in 1..Len(startLog) : startLog[k].task = t})
\* the batches of the running filter call that have been begun
BatchesBegun ==
  IF flt.pc = "init" THEN 0
  ELSE IF flt.pc = "done"
  THEN (Len(flt.messages) + flt.batchSize - 1) \div flt.batchSize
  ELSE (flt.i \div flt.batchSize) + 1
FilterCallFailed == ~tasks[flt.task].delivered.ok

ActiveLoops == {l \in DOMAIN loops : loops[l].pc # "idle"}
QueuedTasks == {t \in DOMAIN tasks : tasks[t].state = "queued"}
InQueue == {requestQueue[k] : k \in 1..Len(requestQueue)}

\* C30: at most one drain loop is active, the flag isProcessing says
\* whether one is, every enqueued task that has not been started is in the
\* queue, the queue is empty whenever no loop is active, and a loop ends
\* only in a step that finds and leaves the queue empty.
C30_OneDrainLoop ==
  /\ [](/\ Cardinality(ActiveLoops) <= 1
        /\ isProcessing <=> ActiveLoops # {}
        /\ QueuedTasks = InQueue
        /\ ActiveLoops = {} => requestQueue = <<>> /\ QueuedTasks = {})
  /\ [][\A l \in DOMAIN loops :
          (loops[l].pc # "idle" /\ loops'[l].pc = "idle") =>
             /\ requestQueue = <<>>
             /\ requestQueue' = <<>>
             /\ isProcessing' = FALSE]_vars

\* three calls were enqueued, the third while the loop was busy with an
\* earlier one; all three were served and the loop has ended
C30_Witness ==
  /\ ActiveLoops = {}
  /\ nextTask = MaxTasks + 1
  /\ \A t \in DOMAIN tasks : tasks[t].state = "settled"
  /\ Len(startLog) = MaxTasks
  /\ \E k \in 1..Len(startLog) :
       startLog[k].task = MaxTasks /\ tasks[MaxTasks].enqAt < startLog[k].at

\* the positions of the openers '[' and '{' in a text, and of character c
Openers(s) == {q \in 1..Len(s) : s[q] = "[" \/ s[q] = "{"}
Places(s, c) == {q \in 1..Len(s) : s[q] = c}
Least(S) == CHOOSE q \in S : \A r \in S : q <= r
Greatest(S) == CHOOSE q \in S : \A r \in S : q >= r
CloserOf(c) == IF c = "[" THEN "]" ELSE "}"
\* the text s from its first opener up to the last closer of that opener's
\* type behind it, or up to its end when no such closer follows
FirstToLast(s) ==
  LET first  == Least(Openers(s))
      closes == {q \in Places(s, CloserOf(s[first])) : q > first}
  IN SubSeq(s, first, IF closes = {} THEN Len(s) ELSE Greatest(closes))

Mentions(text, kws) == \E q \in 1..Len(text) : LowerWord(text[q]) \in kws
CountOf(text, w) == Cardinality({q \in 1..Len(text) : text[q] = w})
\* the decision on a message of at least 10 words
Accepted(text) ==
  IF Mentions(text, writingKeywords) THEN TRUE
  ELSE IF Mentions(text, excludeKeywords) THEN FALSE
  ELSE \/ CountOf(text, "w.") >= 1 /\ WordsOf(text) >= 15
       \/ CountOf(text, "w.") >= 2
       \/ CountOf(text, "w?") >= 1 /\ WordsOf(text) >= 15
\* the messages of at least 10 words that are accepted, in input order
RECURSIVE AcceptedOf(_)
AcceptedOf(messages) ==
  IF messages = <<>> THEN <<>>
  ELSE (IF WordsOf(Head(messages).text) >= 10 /\ Accepted(Head(messages).text)
        THEN <<Head(messages)>> ELSE <<>>) \o AcceptedOf(Tail(messages))

\* C32: filterMessagesHeuristic returns, in input order, exactly the
\* messages of at least 10 words that hold a writing keyword, or hold no
\* exclude keyword and have a period and 15 words, two periods, or a
\* question mark and 15 words; it leaves its input list as it was.
C32_HeuristicDecision ==
  /\ [](heu.pc = "done" => heu.filtered = AcceptedOf(heu.messages))
  /\ [][(heu.pc = "parsed" /\ heu'.pc = "done") =>
          heu'.messages = heu.messages]_vars

\* a message of ten words or more holding a writing keyword next to an
\* exclude keyword and a prose of fifteen words with one period were both
\* kept, in their order
C32_Witness ==
  /\ heu.pc = "done"
  /\ Len(heu.messages) = 2
  /\ Mentions(heu.messages[1].text, writingKeywords)
  /\ Mentions(heu.messages[1].text, excludeKeywords)
  /\ heu.messages[2].text = LongProse
  /\ heu.filtered = heu.messages

\* the list L is the fallback for issue strings whose group keys are
\* keyOf[1], keyOf[2], ... (the keys of the set skip are not counted): one
\* entry per group for the five most frequent groups, by descending
\* frequency, with the severity of its frequency, or one generic
\* low-severity entry when there is no group
IsFallbackFor(L, keyOf, skip) ==
  LET groups   == {keyOf[j] : j \in 1..Len(keyOf)} \ skip
      count(g) == Cardinality({j \in 1..Len(keyOf) : keyOf[j] = g})
      listed   == {L[k].issue : k \in 1..Len(L)}
  IN IF groups = {}
     THEN /\ Len(L) = 1
          /\ L[1].issue[1] = "Minor"
          /\ L[1].frequency = 1
          /\ L[1].severity = "low"
     ELSE /\ Len(L) = (IF Cardinality(groups) < 5 THEN Cardinality(groups) ELSE 5)
          /\ Cardinality(listed) = Len(L)
          /\ listed \subseteq groups
          /\ \A k \in 1..Len(L) :
               /\ L[k].frequency = count(L[k].issue)
               /\ L[k].severity =
                    (IF L[k].frequency > 5 THEN "high"
                     ELSE IF L[k].frequency >= 3 THEN "medium" ELSE "low")
               /\ k < Len(L) => L[k].frequency >= L[k + 1].frequency
          /\ \A g \in groups \ listed : count(g) <= L[Len(L)].frequency
\* the issue strings of a category and the list the fallback made of them
IssuesOf(d) ==
  FlatMap(ana.evaluations,
          <<"grammar_issues", "punctuation_issues", "tone_issues">>[d])
FallbackUsed == ana.pc = "done" /\ ~ana.response.ok
LowerCased(issues) == [j \in 1..Len(issues) |-> ToLowerCase(issues[j])]
LowerCasedTrimmed(issues) == [j \in 1..Len(issues) |-> Trim(ToLowerCase(issues[j]))]

\* C33 as stated: the fallback groups the issue strings by their text, case
\* put aside, counts each group, keeps the five most frequent by
\* descending frequency with severity high above 5, medium from 3 to 5 and
\* low below 3, and returns one generic low-severity issue for no strings.
C33_Original ==
  FallbackUsed =>
    \A d \in 1..3 : IsFallbackFor(TopLists[d], LowerCased(IssuesOf(d)), {})

\* C33: the fallback groups the issue strings by their text with case and
\* the whitespace around it put aside, leaves blank strings out, counts
\* each group, keeps the five most frequent by descending frequency with
\* severity high above 5, medium from 3 to 5 and low below 3, and returns
\* one generic low-severity issue when no string is left.
C33_Amended ==
  FallbackUsed =>
    \A d \in 1..3 :
      IsFallbackFor(TopLists[d], LowerCasedTrimmed(IssuesOf(d)), {<<>>})

\* "Tense", " tense" and "tense" were counted as one issue of frequency 3
\* and medium severity, heading five grammar issues, and the empty string
\* among the grammar issues was left out
C33_Witness ==
  /\ FallbackUsed
  /\ \E j \in 1..Len(IssuesOf(1)) : IssuesOf(1)[j] = <<" ", "tense">>
  /\ \E j \in 1..Len(IssuesOf(1)) : IssuesOf(1)[j] = <<>>
  /\ Len(ana.result.top_grammar_issues) = 5
  /\ ana.result.top_grammar_issues[1].issue = <<"tense">>
  /\ ana.result.top_grammar_issues[1].frequency = 3
  /\ ana.result.top_grammar_issues[1].severity = "medium"
  /\ \A k \in 1..5 : ana.result.top_grammar_issues[k].issue # <<>>

\* the character an answer begins with, in upper case: its leading A-D
\* letter if it has one, its first character otherwise
LeadingLetter(text) == Initial(text[1].w)
ResultsFor(k) == {j \in 1..Len(grd.results) : grd.results[j].question = k}

\* C34: a multiple_choice question with a non-empty answer is graded in
\* the first pass, without the model: its one result is programmatic and is
\* correct exactly when the answer and the correct answer begin with the
\* same A-D letter (or, without one, the same first character), case put
\* aside.
C34_LeadingLetterDecides ==
  grd.pc # "init" =>
    \A k \in 1..Len(grd.questions) :
      LET q == grd.questions[k]
          a == UserAnswer(grd.userAnswers, q)
      IN (q.question_format = "multiple_choice" /\ a # <<>>) =>
           /\ \A i \in 1..Len(grd.needsLLM) : grd.needsLLM[i] # k
           /\ Cardinality(ResultsFor(k)) = 1
           /\ \A j \in ResultsFor(k) :
                /\ grd.results[j].grading_method = "programmatic"
                /\ grd.results[j].correct <=>
                     LeadingLetter(a) = LeadingLetter(q.correct_answer)

\* the words of an answer, case and punctuation put aside
BareWords(text) == {text[q].w : q \in 1..Len(text)}
Shared(a, b) == Cardinality(BareWords(a) \cap BareWords(b))
Either(a, b) == Cardinality(BareWords(a) \cup BareWords(b))
\* question k got its one result in the first pass, by similarity, as
\* correct / question k was put on the list for the model
GradedSimilar(k) ==
  /\ \A i \in 1..Len(grd.needsLLM) : grd.needsLLM[i] # k
  /\ Cardinality(ResultsFor(k)) = 1
  /\ \A j \in ResultsFor(k) :
       grd.results[j].correct /\ grd.results[j].grading_method = "similarity"
DeferredToModel(k) ==
  /\ \E i \in 1..Len(grd.needsLLM) : grd.needsLLM[i] = k
  /\ \A j \in ResultsFor(k) : grd.results[j].grading_method = "llm"
\* the rule with the lower bound of the correction range either included
\* (low is 1) or not (low is 0): 100 * shared + low > 75 * either
SimilarityRule(low) ==
  grd.pc # "init" =>
    \A k \in 1..Len(grd.questions) :
      LET q == grd.questions[k]
          a == UserAnswer(grd.userAnswers, q)
          shared == Shared(a, q.correct_answer)
          either == Either(a, q.correct_answer)
      IN (q.question_format \in {"correction", "writing_prompt"} /\ a # <<>>) =>
           IF 100 * shared > 90 * either THEN GradedSimilar(k)
           ELSE IF q.question_format = "correction"
                   /\ 100 * shared + low > 75 * either
                THEN GradedSimilar(k)
                ELSE DeferredToModel(k)

\* C35 as stated: a correction or writing_prompt answer of similarity above
\* 0.90 is correct by similarity; a correction answer of similarity from
\* 0.75 to 0.90, both included, also; every other answer is deferred.
C35_Original == SimilarityRule(1)

\* C35: a correction or writing_prompt answer of similarity above 0.90 is
\* correct by similarity; a correction answer of similarity above 0.75 and
\* up to 0.90 also; every other answer, one of similarity exactly 0.75
\* included, is deferred to the model.
C35_Amended == SimilarityRule(0)

\* two correction questions: the answer sharing 18 of 20 words (0.90) was
\* accepted by similarity, the one sharing 15 of 20 (0.75) was deferred
C35_Witness ==
  /\ grd.pc # "init"
  /\ Len(grd.questions) = 2
  /\ grd.questions[1].question_format = "correction"
  /\ grd.questions[2].question_format = "correction"
  /\ Shared(grd.userAnswers[1].words, grd.questions[1].correct_answer) = 18
  /\ Either(grd.userAnswers[1].words, grd.questions[1].correct_answer) = 20
  /\ Shared(grd.userAnswers[2].words, grd.questions[2].correct_answer) = 15
  /\ Either(grd.userAnswers[2].words, grd.questions[2].correct_answer) = 20
  /\ GradedSimilar(1)
  /\ DeferredToModel(2)

\* C36: once a reset of the active session is confirmed, the stored
\* session has no answers, no grading results, no score and is not
\* completed, and the component shows the question form.
C36_ResetClears ==
  ses.pc = "reset" =>
    LET currentSession == CurrentSession(ses)
    IN /\ currentSession.user_answers = NoAnswers(currentSession.questions)
       /\ ses.answers = NoAnswers(currentSession.questions)
       /\ currentSession.grading_results = <<>>
       /\ currentSession.score = NoScore
       /\ ~currentSession.completed
       /\ ~ses.showResults

\* the least c with c * b >= n
CeilOf(n, b) == CHOOSE c \in 0..n : c * b >= n /\ (c = 0 \/ (c - 1) * b < n)
\* the model calls made so far / all of them started once and settled
CallsMade == nextTask - 1
AllCallsSettled ==
  /\ Len(startLog) = CallsMade
  /\ \A t \in 1..CallsMade : tasks[t].state = "settled"

\* C37: filterRelevantMessagesLLM and evaluateBatch terminate, and when
\* they have, ceil(n / batchSize) model calls (ceil(n / 5) for
\* evaluateBatch) were made, one per batch and none for an empty list.
C37_TerminatesAfterCeilCalls ==
  /\ <>(flt.pc = "done" \/ evl.pc = "done")
  /\ [](flt.pc = "done" =>
          /\ CallsMade = CeilOf(Len(flt.messages), flt.batchSize)
          /\ AllCallsSettled)
  /\ [](evl.pc = "done" =>
          /\ CallsMade = CeilOf(Len(evl.messages), 5)
          /\ AllCallsSettled)

\* five messages in batches of two: the filter has ended after three calls
C37_Witness ==
  /\ flt.pc = "done"
  /\ Len(flt.messages) = 5
  /\ flt.batchSize = 2
  /\ CallsMade = 3
  /\ AllCallsSettled

\* the answers stored for session k
StoredAnswers(s, k) == StoredSession(s, k).user_answers
\* handleSubmit stores the results of the grading it awaited
ResultsStored == ses.pc = "grading" /\ ses'.pc = "graded"

\* C38: the results stored for a session are the grades of its stored
\* answers: while handleSubmit awaits the grading no other grading starts,
\* the active session stays and the stored answers of the session stay;
\* the answers graded are those stored when the results are stored; and
\* the stored answers of a completed session stay as they were graded.
C38_ResultsMatchAnswers ==
  /\ [][ses.pc = "grading" =>
          /\ grd'.pc = "init" => grd.pc = "init"
          /\ ses'.activeSession = ses.activeSession
          /\ ses'.submitted = ses.submitted
          /\ StoredAnswers(ses', ses.submitted) = StoredAnswers(ses, ses.submitted)]_vars
  /\ [][ResultsStored =>
          /\ StoredSession(ses', ses.submitted).grading_results = grd.results
          /\ StoredAnswers(ses', ses.submitted) = grd.userAnswers]_vars
  /\ [][\A k \in 1..2 :
          StoredSession(ses, k).completed =>
            StoredAnswers(ses', k) = StoredAnswers(ses, k)]_vars
====
